---- MODULE Spec2Model ----
(***************************************************************************)
(* Model of the cvh-icons desktop-icon daemon: the icon table and the      *)
(* path <-> surface-id maps of IconDaemon (daemon/mod.rs), the surface     *)
(* table of WaylandState (wayland/mod.rs), and the calloop loop of         *)
(* IconDaemon::run that drives them.                                       *)
(***************************************************************************)
EXTENDS Integers, Sequences, FiniteSets, TLC

\* ------------------------------------------------------------------ bounds

\* Number of events the environment produces in a run: changes of the
\* watched directory (which the watcher, once it exists, reports as one
\* record each), watcher messages that report no change, the end of
\* the watcher channel, a request to exit, and what the compositor does
\* beyond configuring surfaces: closes of layer surfaces, pointer frames,
\* and outputs appearing, changing and going.
MaxEnvEvents == 2

\* ------------------------------------------------------------------ paths

\* A path is modelled by its file name, a sequence of characters: every
\* path the daemon meets is a direct child of the watched directory.  A file
\* name is a sequence of bytes that need not be UTF-8: InvalidByte stands
\* for a byte that can be part of no UTF-8 text.
InvalidByte == "xFF"

PathA == <<"a">>
PathB == <<"b">>
PathH == <<".", "h">>
PathX == <<".", InvalidByte>>

Paths == {PathA, PathB, PathH, PathX}

\* OsStr::to_str: the name as text, None when it is not valid UTF-8.
to_str(name) ==
    IF \E i \in DOMAIN name : name[i] = InvalidByte THEN <<>> ELSE <<name>>

\* path.file_name().and_then(|n| n.to_str())
\*     .map(|n| n.starts_with('.')).unwrap_or(false)
IsHidden(path) ==
    LET n == to_str(path)
    IN IF n = <<>> THEN FALSE ELSE Len(n[1]) > 0 /\ n[1][1] = "."

\* Path lists of a watcher record: one path, or the two plain names in
\* either order.
PathLists == {<<p>> : p \in Paths} \cup {<<PathA, PathB>>, <<PathB, PathA>>}

RECURSIVE SeqToSet(_)
SeqToSet(s) == IF s = <<>> THEN {} ELSE {Head(s)} \cup SeqToSet(Tail(s))

\* ------------------------------------------------------------------ maps

\* HashMap::insert / HashMap::remove on a map held as a function.
MapPut(f, k, v) == [x \in DOMAIN f \cup {k} |-> IF x = k THEN v ELSE f[x]]
MapDel(f, k) == [x \in DOMAIN f \ {k} |-> f[x]]
EmptyMap == [x \in {} |-> FALSE]

\* ------------------------------------------------------------------ state

VARIABLES
    \* IconDaemon
    icons,              \* HashMap<PathBuf, DesktopIcon>
    surface_to_path,    \* HashMap<SurfaceId, PathBuf>
    path_to_surface,    \* HashMap<PathBuf, SurfaceId>
    needs_render,       \* the dirty flag
    screen_width,
    screen_height,
    wayland,            \* Option<WaylandManager>: TRUE is Some
    \* WaylandState
    surfaces,           \* HashMap<SurfaceId, IconSurfaceData>
    surface_ids,        \* HashMap<WlSurface, SurfaceId>
    next_surface_id,
    input_events,       \* Vec<InputEvent>
    pointer_surface,    \* Option<SurfaceId>
    exit,
    outputs,            \* Vec<WlOutput>, each output with its OutputInfo
    \* DaemonState and the position of run()
    pending_events,
    should_update_icons,
    should_stop,
    pc,
    \* the environment
    fs,                 \* entries of the watched directory
    chan,               \* watcher messages not yet delivered by calloop
    budget,             \* what the environment may still do
    faithful,           \* each record so far reports one change, once
    \* observations of the run
    created,            \* ids returned by create_surface, in order
    retired,            \* ids whose icon remove_icon removed
    delivered,          \* records the channel callback queued, in order
    applied,            \* records handle_fs_event was called with, in order
    queued,             \* input events pointer_frame pushed, in order
    handled,            \* input events handle_wayland_input iterated over
    focus,              \* the wl_surface the compositor's pointer is on
    orderly,            \* each Enter so far came after the Leave it needs
    last,               \* the operation that ran last in this turn
    call                \* an attach_buffer call on pixel bytes and its outcome

daemonVars == <<icons, surface_to_path, path_to_surface, needs_render,
                screen_width, screen_height>>
inputVars == <<input_events, pointer_surface, exit>>
waylandVars == <<surfaces, surface_ids, next_surface_id, input_events,
                pointer_surface, exit>>
loopVars == <<pending_events, should_update_icons, should_stop>>
obsVars == <<created, retired>>
pointerVars == <<queued, handled, focus, orderly>>
histVars == <<delivered, applied, pointerVars>>

vars == <<icons, surface_to_path, path_to_surface, needs_render,
          screen_width, screen_height, wayland,
          surfaces, surface_ids, next_surface_id,
          input_events, pointer_surface, exit, outputs,
          pending_events, should_update_icons, should_stop, pc,
          fs, chan, budget, faithful, created, retired, delivered, applied,
          queued, handled, focus, orderly, last, call>>

\* The daemon and its compositor client as one value, so that an operation
\* that calls others is the composition of their effects.
Cur == [icons |-> icons,
        surface_to_path |-> surface_to_path,
        path_to_surface |-> path_to_surface,
        needs_render |-> needs_render,
        screen_width |-> screen_width,
        screen_height |-> screen_height,
        surfaces |-> surfaces,
        surface_ids |-> surface_ids,
        next_surface_id |-> next_surface_id,
        created |-> created,
        retired |-> retired,
        fs |-> fs,
        later |-> <<>>]

\* Other processes change the directory while an operation runs.  st.fs is
\* the directory as the call that reads it next finds it, st.later the
\* directory as each of the reads after that one finds it.
WithViews(st, views) ==
    [st EXCEPT !.later = views]

\* The operation goes on to its next read of the directory.
NextView(st) ==
    IF st.later = <<>>
    THEN st
    ELSE [st EXCEPT !.fs = Head(st.later), !.later = Tail(st.later)]

Commit(st) ==
    /\ icons' = st.icons
    /\ surface_to_path' = st.surface_to_path
    /\ path_to_surface' = st.path_to_surface
    /\ needs_render' = st.needs_render
    /\ screen_width' = st.screen_width
    /\ screen_height' = st.screen_height
    /\ surfaces' = st.surfaces
    /\ surface_ids' = st.surface_ids
    /\ next_surface_id' = st.next_surface_id
    /\ created' = st.created
    /\ retired' = st.retired

\* Option<Buffer>: None is the empty sequence, Some(b) is <<b>>.
NoBuffer == <<>>
SomeBuffer(pixels) == <<pixels>>

\* Option<T> in general, and Option::unwrap_or.
None == <<>>
Some(v) == <<v>>
UnwrapOr(opt, default) == IF opt = None THEN default ELSE opt[1]

\* What the last operation was: its name, the record it handled (if any),
\* the key set of the icon table before it, the paths it logged a failure
\* for, the on_click calls and the set_surface_position calls it made.
NoEvent == [kind |-> "None", paths |-> <<>>]

\* The steps of run() that did something in this turn, in the order they
\* ran: compositor handlers, input handling, filesystem records, the
\* tick-driven update, the render pass.
StepOf(op) ==
    CASE op \in {"configure", "closed", "pointer", "new_output",
                 "update_output", "output_destroyed"} -> "wayland"
      [] op = "input" -> "input"
      [] op \in {"fs_event", "fs_event_err"} -> "fs"
      [] op = "update_icons" -> "tick"
      [] op = "render" -> "render"
      [] OTHER -> "none"

Ran(turn, op) ==
    IF StepOf(op) = "none" THEN turn
    ELSE IF turn # <<>> /\ turn[Len(turn)] = StepOf(op) THEN turn
    ELSE Append(turn, StepOf(op))

Last(op, ev, failed) ==
    [op |-> op, ev |-> ev, pre |-> DOMAIN icons, failed |-> failed,
     clicks |-> <<>>, moves |-> <<>>, turn |-> Ran(last.turn, op)]

\* ------------------------------------------------------------------ icon model
\* crate::icons::DesktopIcon is not among the source files; these
\* definitions follow its contract in the specification.

\* DesktopIcon::new(path, config): a fresh icon, not hovered.  It fails
\* when the entry cannot be inspected, that is, when it is not on disk
\* (st.fs is the directory as the operation finds it).
CanConstruct(st, path) == path \in st.fs
NewIcon == [hovered |-> FALSE]

\* icon.update(): Err ("Gone") when the underlying path no longer exists.
UpdateOk(st, path) == path \in st.fs

\* icon.set_hovered(h)
SetHovered(icon, h) == [icon EXCEPT !.hovered = h]

\* request_render + the rasteriser: the pixels shown for an icon are a
\* function of its visual state.
Pixels(icon) == [hovered |-> icon.hovered]

\* Config: the size of an icon and the gap between two cells of the grid.
icon_size == 600
grid_spacing == 40

\* The inset of the grid from the top-left corner of the screen.
GridInset == 20

\* const LABEL_HEIGHT
LABEL_HEIGHT == 24

\* The fallback screen size of IconDaemon::new.
DefaultWidth == 1920
DefaultHeight == 1080

\* icon.request_position(screen_w, screen_h, total, index, cell_w, cell_h):
\* the cell of `index` in a grid laid out left to right, top to bottom from
\* the inset, a row ending where the next cell would pass screen_w.  total
\* and screen_h are not used.
request_position(screen_w, screen_h, total, index, cell_w, cell_h) ==
    LET fit == (screen_w - GridInset) \div cell_w
        columns == IF fit < 1 THEN 1 ELSE fit
    IN [x |-> GridInset + (index % columns) * cell_w,
        y |-> GridInset + (index \div columns) * cell_h]

\* ------------------------------------------------------------------ WaylandState

\* create_surface without `self.next_surface_id += 1`.
create_surface_no_increment(st, position) ==
    LET surface_id == st.next_surface_id
    IN [st |-> [st EXCEPT
                  !.surfaces = MapPut(@, surface_id,
                                      [configured |-> FALSE,
                                       buffer |-> NoBuffer,
                                       position |-> position]),
                  !.surface_ids = MapPut(@, surface_id, surface_id),
                  !.created = Append(@, surface_id)],
        id |-> surface_id]

\* create_surface taking the lowest id that is not in the surface table, so
\* that the id of a destroyed surface is handed out again.
create_surface_reuses_ids(st, position) ==
    LET free == {k \in 1..(Cardinality(DOMAIN st.surfaces) + 1) :
                    k \notin DOMAIN st.surfaces}
        surface_id == CHOOSE k \in free : \A j \in free : k <= j
    IN [st |-> [st EXCEPT
                  !.next_surface_id = @ + 1,
                  !.surfaces = MapPut(@, surface_id,
                                      [configured |-> FALSE,
                                       buffer |-> NoBuffer,
                                       position |-> position]),
                  !.surface_ids = MapPut(@, surface_id, surface_id),
                  !.created = Append(@, surface_id)],
        id |-> surface_id]

\* WaylandState::create_surface: takes the counter as the id, increments
\* it, stores an unconfigured surface without buffer, and maps the new
\* wl_surface (named here by the id it was created with) to the id.
create_surface(st, position) ==
    LET surface_id == st.next_surface_id
    IN [st |-> [st EXCEPT
                  !.next_surface_id = @ + 1,
                  !.surfaces = MapPut(@, surface_id,
                                      [configured |-> FALSE,
                                       buffer |-> NoBuffer,
                                       position |-> position]),
                  !.surface_ids = MapPut(@, surface_id, surface_id),
                  !.created = Append(@, surface_id)],
        id |-> surface_id]

\* WaylandState::set_surface_position: the position of a surface of the
\* table is replaced (and sent to the compositor as margins); an id that is
\* not in the table is ignored.
set_surface_position(st, surface_id, position) ==
    IF surface_id \in DOMAIN st.surfaces
    THEN [st EXCEPT !.surfaces[surface_id].position = position]
    ELSE st

\* WaylandState::get_output_dimensions on the list of outputs: the logical
\* size of the first output, else the dimensions of its current mode, else
\* None.  An output is held with its OutputInfo: logical_size and the
\* dimensions of the current mode, each an Option.
get_output_dimensions(outs) ==
    IF outs = <<>>
    THEN None
    ELSE LET info == Head(outs)
         IN IF info.logical_size # None THEN Some(info.logical_size[1])
            ELSE IF info.mode # None THEN Some(info.mode[1])
            ELSE None

\* The wl_surface of a surface id, if the id is still in surface_ids.
WlSurfaceOf(st, surface_id) ==
    {w \in DOMAIN st.surface_ids : st.surface_ids[w] = surface_id}

\* WaylandState::destroy_surface
destroy_surface(st, surface_id) ==
    IF surface_id \in DOMAIN st.surfaces
    THEN [st EXCEPT
            !.surfaces = MapDel(@, surface_id),
            !.surface_ids = [w \in DOMAIN @ \ WlSurfaceOf(st, surface_id) |-> @[w]]]
    ELSE st

\* attach_buffer without the `if !surface_data.configured` return.
attach_buffer_unchecked(st, surface_id, pixels, alloc_ok) ==
    IF surface_id \notin DOMAIN st.surfaces
    THEN [st |-> st, res |-> "Err"]
    ELSE IF ~alloc_ok
    THEN [st |-> st, res |-> "Err"]
    ELSE [st |-> [st EXCEPT !.surfaces[surface_id].buffer = SomeBuffer(pixels)],
          res |-> "Ok"]

\* WaylandState::attach_buffer: Err for an unknown surface, Ok without
\* effect for an unconfigured one, Err when the pool cannot allocate,
\* otherwise the buffer is filled, attached, committed and kept.
attach_buffer(st, surface_id, pixels, alloc_ok) ==
    IF surface_id \notin DOMAIN st.surfaces
    THEN [st |-> st, res |-> "Err"]
    ELSE IF ~st.surfaces[surface_id].configured
    THEN [st |-> st, res |-> "Ok"]
    ELSE IF ~alloc_ok
    THEN [st |-> st, res |-> "Err"]
    ELSE [st |-> [st EXCEPT !.surfaces[surface_id].buffer = SomeBuffer(pixels)],
          res |-> "Ok"]

\* ------------------------------------------------------------------ attach_buffer on bytes
\* The size check and the pixel copy of attach_buffer, on the bytes of the
\* pixel slice.  Unsigned integers are held as little-endian sequences of
\* bytes, so that a product keeps every byte it has before it is cut to the
\* width of its type.

\* The k low bytes of n.
RECURSIVE ToBytes(_, _)
ToBytes(n, k) ==
    IF k = 0 THEN <<>> ELSE <<n % 256>> \o ToBytes(n \div 256, k - 1)

Zeros(k) == [i \in 1..k |-> 0]

\* Sum of a[i] * b[j] over the 0-based byte positions i + j = k, from i on.
RECURSIVE Column(_, _, _, _)
Column(a, b, k, i) ==
    IF i > k \/ i >= Len(a)
    THEN 0
    ELSE (IF k - i < Len(b) THEN a[i + 1] * b[k - i + 1] ELSE 0)
         + Column(a, b, k, i + 1)

RECURSIVE MulFrom(_, _, _, _)
MulFrom(a, b, k, carry) ==
    IF k = Len(a) + Len(b)
    THEN <<>>
    ELSE LET t == Column(a, b, k, 0) + carry
         IN <<t % 256>> \o MulFrom(a, b, k + 1, t \div 256)

\* The exact product of two unsigned integers, Len(a) + Len(b) bytes long.
MulBytes(a, b) == MulFrom(a, b, 0, 0)

\* a * b on u32: the low four bytes of the product, and whether the
\* product passes u32::MAX.
MulU32(a, b) ==
    LET p == MulBytes(a, b)
    IN [value |-> SubSeq(p, 1, 4), overflow |-> SubSeq(p, 5, 8) # Zeros(4)]

\* let expected_size = (width * height * 4) as usize.  A build with
\* overflow checks panics when a product passes u32::MAX; a build without
\* them goes on with the low 32 bits.
expected_size(width, height, overflow_checks) ==
    LET wh == MulU32(ToBytes(width, 4), ToBytes(height, 4))
        whx4 == MulU32(wh.value, ToBytes(4, 4))
    IN [panic |-> overflow_checks /\ (wh.overflow \/ whx4.overflow),
        size |-> whx4.value \o Zeros(4)]

\* 4 * width * height as an integer, twelve bytes long.
ExactSize(width, height) ==
    MulBytes(MulBytes(ToBytes(width, 4), ToBytes(height, 4)), ToBytes(4, 4))

\* The copy loop with the channels written in the order they are read.
RECURSIVE CopyPixels_no_swap(_, _, _)
CopyPixels_no_swap(canvas, pixels, i) ==
    IF 4 * i >= Len(pixels)
    THEN canvas
    ELSE LET r == pixels[4 * i + 1]
             g == pixels[4 * i + 2]
             b == pixels[4 * i + 3]
             a == pixels[4 * i + 4]
             offset == i * 4
         IN CopyPixels_no_swap([canvas EXCEPT ![offset + 1] = r,
                                              ![offset + 2] = g,
                                              ![offset + 3] = b,
                                              ![offset + 4] = a],
                               pixels, i + 1)

\* for (i, chunk) in pixels.chunks(4).enumerate(): the chunk r, g, b, a is
\* written as b, g, r, a at offset 4 * i of the canvas.  (Sequences are
\* 1-based: byte k of the code is element k + 1.)  The size check has made
\* the length of pixels a multiple of four.
RECURSIVE CopyPixels(_, _, _)
CopyPixels(canvas, pixels, i) ==
    IF 4 * i >= Len(pixels)
    THEN canvas
    ELSE LET r == pixels[4 * i + 1]
             g == pixels[4 * i + 2]
             b == pixels[4 * i + 3]
             a == pixels[4 * i + 4]
             offset == i * 4
         IN CopyPixels([canvas EXCEPT ![offset + 1] = b,
                                      ![offset + 2] = g,
                                      ![offset + 3] = r,
                                      ![offset + 4] = a],
                       pixels, i + 1)

\* width as i32 * 4, the stride attach_buffer asks create_buffer for.  (The
\* widths met here are below 2^31, where `as i32` keeps the value.)  A
\* build with overflow checks panics when the product passes i32::MAX; a
\* build without them goes on with the low 32 bits, which read as a
\* negative number when the highest bit is set.
Stride(width, overflow_checks) ==
    LET p == MulBytes(ToBytes(width, 4), ToBytes(4, 4))
        low == SubSeq(p, 1, 4)
        fits == SubSeq(p, 5, 8) = Zeros(4) /\ low[4] < 128
    IN [panic |-> overflow_checks /\ ~fits,
        negative |-> low[4] >= 128,
        value |-> low]

\* The length in bytes of the canvas the pool hands out for a buffer of
\* `height` rows of `stride` bytes, as a usize.
CanvasLen(height, stride) == MulBytes(ToBytes(height, 4), stride)

\* The bytes of a canvas that the model holds: all of them, or the first
\* ones when the canvas is longer than any slice drawn and one pixel more.
\* The copy loop writes below the length of the slice, and the bytes
\* beyond those held are never written.
CanvasHeld(len, most) ==
    IF \E k \in 0..most : ToBytes(k, 8) = len
    THEN CHOOSE k \in 0..most : ToBytes(k, 8) = len
    ELSE most

\* attach_buffer for a surface of the table, on the bytes: configured is
\* the flag of the surface, stale the byte the memory create_buffer hands
\* out holds from before, alloc_ok whether create_buffer and attach_to
\* succeed, most the number of canvas bytes held at most.  The outcome is
\* the result, and the length and the bytes of the canvas of the buffer
\* kept.  The pool has no buffer of a negative stride.  An index past the
\* end of the canvas panics.
AttachBytes(configured, pixels, width, height, overflow_checks, alloc_ok, stale, most) ==
    LET expected == expected_size(width, height, overflow_checks)
        stride == Stride(width, overflow_checks)
        len == CanvasLen(height, stride.value)
        canvas == [i \in 1..CanvasHeld(len, most) |-> stale]
        Without(res) == [res |-> res, len |-> <<>>, canvas |-> <<>>]
    IN IF ~configured
       THEN Without("Skipped")
       ELSE IF expected.panic
       THEN Without("Panic")
       ELSE IF ToBytes(Len(pixels), 8) # expected.size
       THEN Without("SizeMismatch")
       ELSE IF stride.panic
       THEN Without("Panic")
       ELSE IF stride.negative \/ ~alloc_ok
       THEN Without("AllocErr")
       ELSE IF Len(canvas) < Len(pixels)
       THEN Without("Panic")
       ELSE [res |-> "Ok", len |-> len,
             canvas |-> CopyPixels(canvas, pixels, 0)]

\* ------------------------------------------------------------------ IconDaemon

\* The cell of the grid, as add_icon and reposition_all_icons compute it.
surface_height == icon_size + LABEL_HEIGHT
cell_width == icon_size + grid_spacing
cell_height == surface_height + grid_spacing

\* add_icon without the `contains_key` return at its head.
add_icon_no_dup_check(st, path) ==
    IF ~CanConstruct(st, path)
    THEN [st |-> st, ok |-> FALSE]
    ELSE LET icon_count == Cardinality(DOMAIN st.icons)
             icon_index == icon_count
             position == request_position(st.screen_width, st.screen_height,
                                          icon_count + 1, icon_index,
                                          cell_width, cell_height)
             cs == create_surface(st, position)
             s1 == IF wayland
                   THEN [cs.st EXCEPT
                           !.surface_to_path = MapPut(@, cs.id, path),
                           !.path_to_surface = MapPut(@, path, cs.id)]
                   ELSE st
         IN [st |-> [s1 EXCEPT !.icons = MapPut(@, path, NewIcon)],
             ok |-> TRUE]

\* add_icon creating and binding the surface before it constructs the
\* icon: a failing construction leaves the handler with the path bound.
add_icon_surface_first(st, path) ==
    IF path \in DOMAIN st.icons
    THEN [st |-> st, ok |-> TRUE]
    ELSE LET icon_count == Cardinality(DOMAIN st.icons)
             icon_index == icon_count
             position == request_position(st.screen_width, st.screen_height,
                                          icon_count + 1, icon_index,
                                          cell_width, cell_height)
             cs == create_surface(st, position)
             s1 == IF wayland
                   THEN [cs.st EXCEPT
                           !.surface_to_path = MapPut(@, cs.id, path),
                           !.path_to_surface = MapPut(@, path, cs.id)]
                   ELSE st
         IN IF ~CanConstruct(st, path)
            THEN [st |-> s1, ok |-> FALSE]
            ELSE [st |-> [s1 EXCEPT !.icons = MapPut(@, path, NewIcon)],
                  ok |-> TRUE]

\* IconDaemon::add_icon.  The grid index of the new icon is the current
\* size of the icon table; the surface is created at the cell of that index.
add_icon(st, path) ==
    IF path \in DOMAIN st.icons
    THEN [st |-> st, ok |-> TRUE]
    ELSE IF ~CanConstruct(st, path)
    THEN [st |-> st, ok |-> FALSE]
    ELSE LET icon_count == Cardinality(DOMAIN st.icons)
             icon_index == icon_count
             position == request_position(st.screen_width, st.screen_height,
                                          icon_count + 1, icon_index,
                                          cell_width, cell_height)
             cs == create_surface(st, position)
             s1 == IF wayland
                   THEN [cs.st EXCEPT
                           !.surface_to_path = MapPut(@, cs.id, path),
                           !.path_to_surface = MapPut(@, path, cs.id)]
                   ELSE st
         IN [st |-> [s1 EXCEPT !.icons = MapPut(@, path, NewIcon)],
             ok |-> TRUE]

\* remove_icon without `self.surface_to_path.remove(&surface_id)`.
remove_icon_keeps_reverse(st, path) ==
    IF path \notin DOMAIN st.icons
    THEN st
    ELSE LET s1 == [st EXCEPT !.icons = MapDel(@, path)]
         IN IF path \in DOMAIN s1.path_to_surface
            THEN LET surface_id == s1.path_to_surface[path]
                     s2 == [s1 EXCEPT !.path_to_surface = MapDel(@, path)]
                     s3 == IF wayland THEN destroy_surface(s2, surface_id)
                           ELSE s2
                 IN [s3 EXCEPT !.retired = @ \cup {surface_id}]
            ELSE s1

\* remove_icon with `path_to_surface.get(path)` in place of `.remove(path)`.
remove_icon_keeps_forward(st, path) ==
    IF path \notin DOMAIN st.icons
    THEN st
    ELSE LET s1 == [st EXCEPT !.icons = MapDel(@, path)]
         IN IF path \in DOMAIN s1.path_to_surface
            THEN LET surface_id == s1.path_to_surface[path]
                     s3 == IF wayland THEN destroy_surface(s1, surface_id)
                           ELSE s1
                 IN [s3 EXCEPT !.surface_to_path = MapDel(@, surface_id),
                               !.retired = @ \cup {surface_id}]
            ELSE s1

\* remove_icon without `wayland.destroy_surface(surface_id)`.
remove_icon_keeps_surface(st, path) ==
    IF path \notin DOMAIN st.icons
    THEN st
    ELSE LET s1 == [st EXCEPT !.icons = MapDel(@, path)]
         IN IF path \in DOMAIN s1.path_to_surface
            THEN LET surface_id == s1.path_to_surface[path]
                 IN [s1 EXCEPT !.path_to_surface = MapDel(@, path),
                               !.surface_to_path = MapDel(@, surface_id),
                               !.retired = @ \cup {surface_id}]
            ELSE s1

\* IconDaemon::remove_icon
remove_icon(st, path) ==
    IF path \notin DOMAIN st.icons
    THEN st
    ELSE LET s1 == [st EXCEPT !.icons = MapDel(@, path)]
         IN IF path \in DOMAIN s1.path_to_surface
            THEN LET surface_id == s1.path_to_surface[path]
                     s2 == [s1 EXCEPT !.path_to_surface = MapDel(@, path)]
                     s3 == IF wayland THEN destroy_surface(s2, surface_id)
                           ELSE s2
                 IN [s3 EXCEPT !.surface_to_path = MapDel(@, surface_id),
                               !.retired = @ \cup {surface_id}]
            ELSE s1

\* The three loops of handle_fs_event over event.paths.  A failing add_icon
\* leaves the loop and the handler through `?`.  Each turn of a loop finds
\* the directory as it is when the turn runs.
RECURSIVE CreatePaths(_, _)
CreatePaths(st, paths) ==
    IF paths = <<>>
    THEN [st |-> st, ok |-> TRUE]
    ELSE LET r == add_icon(st, Head(paths))
         IN IF r.ok THEN CreatePaths(NextView(r.st), Tail(paths))
            ELSE [st |-> r.st, ok |-> FALSE]

RECURSIVE RemovePaths(_, _)
RemovePaths(st, paths) ==
    IF paths = <<>>
    THEN st
    ELSE RemovePaths(NextView(remove_icon(st, Head(paths))), Tail(paths))

\* The Modify loop without the remove_icon / add_icon pair: a mapped path
\* is left as it is.
RECURSIVE ModifyPaths_no_refresh(_, _)
ModifyPaths_no_refresh(st, paths) ==
    IF paths = <<>>
    THEN [st |-> st, ok |-> TRUE]
    ELSE ModifyPaths_no_refresh(NextView(st), Tail(paths))

\* The Modify loop without `if self.icons.contains_key(&path)`.
RECURSIVE ModifyPaths_no_contains_check(_, _)
ModifyPaths_no_contains_check(st, paths) ==
    IF paths = <<>>
    THEN [st |-> st, ok |-> TRUE]
    ELSE LET r == add_icon(remove_icon(st, Head(paths)), Head(paths))
         IN IF r.ok
            THEN ModifyPaths_no_contains_check(NextView(r.st), Tail(paths))
            ELSE [st |-> r.st, ok |-> FALSE]

RECURSIVE ModifyPaths(_, _)
ModifyPaths(st, paths) ==
    IF paths = <<>>
    THEN [st |-> st, ok |-> TRUE]
    ELSE IF Head(paths) \in DOMAIN st.icons
    THEN LET r == add_icon(remove_icon(st, Head(paths)), Head(paths))
         IN IF r.ok THEN ModifyPaths(NextView(r.st), Tail(paths))
            ELSE [st |-> r.st, ok |-> FALSE]
    ELSE ModifyPaths(NextView(st), Tail(paths))

\* IconDaemon::handle_fs_event
handle_fs_event(st, event) ==
    CASE event.kind = "Create" ->
           LET r == CreatePaths(st, event.paths)
           IN IF r.ok THEN [st |-> [r.st EXCEPT !.needs_render = TRUE], ok |-> TRUE]
              ELSE r
      [] event.kind = "Remove" ->
           [st |-> [RemovePaths(st, event.paths) EXCEPT !.needs_render = TRUE],
            ok |-> TRUE]
      [] event.kind = "Modify" ->
           LET r == ModifyPaths(st, event.paths)
           IN IF r.ok THEN [st |-> [r.st EXCEPT !.needs_render = TRUE], ok |-> TRUE]
              ELSE r
      [] OTHER -> [st |-> st, ok |-> TRUE]

\* IconDaemon::update_icons: update() on every icon, then remove_icon for
\* each one whose update failed.
RECURSIVE RemoveAll(_, _)
RemoveAll(st, to_remove) ==
    IF to_remove = {}
    THEN st
    ELSE LET path == CHOOSE p \in to_remove : TRUE
         IN RemoveAll(remove_icon(st, path), to_remove \ {path})

\* The first loop of update_icons: update() on every icon of the table, in
\* the order `order` in which the table yields them, each update finding
\* the directory as it is when it runs; to_remove collects the paths whose
\* update returned an error.
RECURSIVE ToRemove(_, _)
ToRemove(st, order) ==
    IF order = <<>>
    THEN {}
    ELSE (IF UpdateOk(st, Head(order)) THEN {} ELSE {Head(order)})
         \cup ToRemove(NextView(st), Tail(order))

\* The first icon of the table, in the order it yields them, whose update
\* returns an error.
RECURSIVE FirstToRemove(_, _)
FirstToRemove(st, order) ==
    IF order = <<>>
    THEN <<>>
    ELSE IF UpdateOk(st, Head(order))
    THEN FirstToRemove(NextView(st), Tail(order))
    ELSE <<Head(order)>>

\* update_icons that calls remove_icon inside the first loop and leaves the
\* loop with it: the first icon found gone is the only one removed.
update_icons_first_only(st, order) ==
    IF FirstToRemove(st, order) = <<>>
    THEN st
    ELSE remove_icon(st, FirstToRemove(st, order)[1])

update_icons(st, order) == RemoveAll(st, ToRemove(st, order))

\* The loop of reposition_all_icons with the index add_icon uses, the size
\* of the icon table, in place of the enumeration index.
RECURSIVE RepositionFrom_count_index(_, _, _, _, _)
RepositionFrom_count_index(st, to_reposition, index, icon_count, moves) ==
    IF index >= Len(to_reposition)
    THEN [st |-> st, moves |-> moves]
    ELSE LET path == to_reposition[index + 1][1]
             surface_id == to_reposition[index + 1][2]
             position == request_position(st.screen_width, st.screen_height,
                                          icon_count, icon_count,
                                          cell_width, cell_height)
         IN IF path \in DOMAIN st.icons /\ wayland
            THEN RepositionFrom_count_index(
                     set_surface_position(st, surface_id, position),
                     to_reposition, index + 1, icon_count,
                     Append(moves, [surface_id |-> surface_id,
                                    index |-> icon_count,
                                    position |-> position]))
            ELSE RepositionFrom_count_index(st, to_reposition, index + 1,
                                            icon_count, moves)

\* The loop of reposition_all_icons over to_reposition, the (path, id) pairs
\* collected from path_to_surface in the order the map iterates: the pair at
\* enumeration index `index` gets the cell of that index.  moves lists the
\* calls of set_surface_position.
RECURSIVE RepositionFrom(_, _, _, _, _)
RepositionFrom(st, to_reposition, index, icon_count, moves) ==
    IF index >= Len(to_reposition)
    THEN [st |-> st, moves |-> moves]
    ELSE LET path == to_reposition[index + 1][1]
             surface_id == to_reposition[index + 1][2]
             position == request_position(st.screen_width, st.screen_height,
                                          icon_count, index,
                                          cell_width, cell_height)
         IN IF path \in DOMAIN st.icons /\ wayland
            THEN RepositionFrom(
                     set_surface_position(st, surface_id, position),
                     to_reposition, index + 1, icon_count,
                     Append(moves, [surface_id |-> surface_id,
                                    index |-> index,
                                    position |-> position]))
            ELSE RepositionFrom(st, to_reposition, index + 1, icon_count,
                                moves)

\* IconDaemon::reposition_all_icons; order is the order in which
\* path_to_surface iterates.
reposition_all_icons(st, order) ==
    LET to_reposition == [i \in DOMAIN order |->
                            <<order[i], st.path_to_surface[order[i]]>>]
    IN RepositionFrom(st, to_reposition, 0, Cardinality(DOMAIN st.icons),
                      <<>>)

\* update_screen_dimensions that repositions before it stores the new pair.
update_screen_dimensions_late_store(st, outs, order) ==
    IF ~wayland
    THEN [st |-> st, moves |-> <<>>, repositioned |-> FALSE]
    ELSE LET new == UnwrapOr(get_output_dimensions(outs),
                             <<st.screen_width, st.screen_height>>)
         IN IF new[1] # st.screen_width \/ new[2] # st.screen_height
            THEN LET r == reposition_all_icons(st, order)
                 IN [st |-> [r.st EXCEPT !.screen_width = new[1],
                                         !.screen_height = new[2],
                                         !.needs_render = TRUE],
                     moves |-> r.moves, repositioned |-> TRUE]
            ELSE [st |-> st, moves |-> <<>>, repositioned |-> FALSE]

\* update_screen_dimensions with `.unwrap_or((1920, 1080))`, as in
\* IconDaemon::new.
update_screen_dimensions_default_fallback(st, outs, order) ==
    IF ~wayland
    THEN [st |-> st, moves |-> <<>>, repositioned |-> FALSE]
    ELSE LET new == UnwrapOr(get_output_dimensions(outs),
                             <<DefaultWidth, DefaultHeight>>)
         IN IF new[1] # st.screen_width \/ new[2] # st.screen_height
            THEN LET s1 == [st EXCEPT !.screen_width = new[1],
                                      !.screen_height = new[2]]
                     r == reposition_all_icons(s1, order)
                 IN [st |-> [r.st EXCEPT !.needs_render = TRUE],
                     moves |-> r.moves, repositioned |-> TRUE]
            ELSE [st |-> st, moves |-> <<>>, repositioned |-> FALSE]

\* IconDaemon::update_screen_dimensions: nothing without a compositor;
\* otherwise the reported dimensions, or the stored pair when none are
\* reported, are compared with the stored pair, and a different pair is
\* stored, all icons are repositioned and the dirty flag is set.
update_screen_dimensions(st, outs, order) ==
    IF ~wayland
    THEN [st |-> st, moves |-> <<>>, repositioned |-> FALSE]
    ELSE LET new == UnwrapOr(get_output_dimensions(outs),
                             <<st.screen_width, st.screen_height>>)
         IN IF new[1] # st.screen_width \/ new[2] # st.screen_height
            THEN LET s1 == [st EXCEPT !.screen_width = new[1],
                                      !.screen_height = new[2]]
                     r == reposition_all_icons(s1, order)
                 IN [st |-> [r.st EXCEPT !.needs_render = TRUE],
                     moves |-> r.moves, repositioned |-> TRUE]
            ELSE [st |-> st, moves |-> <<>>, repositioned |-> FALSE]

\* The body of the loop of render_icons_to_surfaces for one path:
\* raster_ok is the outcome of renderer.execute_commands, alloc_ok that of
\* the pool inside attach_buffer.
RenderOne(st, path, raster_ok, alloc_ok) ==
    IF path \notin DOMAIN st.path_to_surface
    THEN [st |-> st, res |-> "Skip"]
    ELSE IF ~raster_ok
    THEN [st |-> st, res |-> "Err"]
    ELSE attach_buffer(st, st.path_to_surface[path],
                       Pixels(st.icons[path]), alloc_ok)

\* The loop of the render pass leaving at the first icon that fails, as
\* `?` would.
RECURSIVE RenderPaths_stops_at_failure(_, _, _, _)
RenderPaths_stops_at_failure(st, paths, raster_fail, alloc_fail) ==
    IF paths = {}
    THEN [st |-> st, failed |-> {}]
    ELSE LET path == CHOOSE p \in paths : TRUE
             r == RenderOne(st, path, path \notin raster_fail,
                            path \notin alloc_fail)
         IN IF r.res = "Err"
            THEN [st |-> r.st, failed |-> {path}]
            ELSE RenderPaths_stops_at_failure(r.st, paths \ {path},
                                              raster_fail, alloc_fail)

RECURSIVE RenderPaths(_, _, _, _)
RenderPaths(st, paths, raster_fail, alloc_fail) ==
    IF paths = {}
    THEN [st |-> st, failed |-> {}]
    ELSE LET path == CHOOSE p \in paths : TRUE
             r == RenderOne(st, path, path \notin raster_fail,
                            path \notin alloc_fail)
             rest == RenderPaths(r.st, paths \ {path}, raster_fail, alloc_fail)
         IN [st |-> rest.st,
             failed |-> rest.failed \cup (IF r.res = "Err" THEN {path} ELSE {})]

\* IconDaemon::render_icons_to_surfaces.  failed is the set of paths for
\* which the pass logged a rasteriser or attach failure.
render_icons_to_surfaces(st, raster_fail, alloc_fail) ==
    IF ~wayland \/ ~st.needs_render
    THEN [st |-> st, failed |-> {}, ran |-> FALSE]
    ELSE LET r == RenderPaths(st, DOMAIN st.icons, raster_fail, alloc_fail)
         IN [st |-> [r.st EXCEPT !.needs_render = FALSE],
             failed |-> r.failed, ran |-> TRUE]

\* Linux button codes named in handle_wayland_input.
BTN_LEFT == 272
BTN_RIGHT == 273
BTN_MIDDLE == 274

\* Button codes a pointer may report: the three named ones and one other.
Buttons == {BTN_LEFT, BTN_RIGHT, BTN_MIDDLE, 275}

\* InputEvent, with the coordinates left out.
PointerEnter(surface_id) ==
    [kind |-> "PointerEnter", surface_id |-> surface_id, button |-> 0,
     pressed |-> FALSE]
PointerLeave(surface_id) ==
    [kind |-> "PointerLeave", surface_id |-> surface_id, button |-> 0,
     pressed |-> FALSE]
PointerMotion(surface_id) ==
    [kind |-> "PointerMotion", surface_id |-> surface_id, button |-> 0,
     pressed |-> FALSE]
PointerButton(surface_id, button, pressed) ==
    [kind |-> "PointerButton", surface_id |-> surface_id, button |-> button,
     pressed |-> pressed]

\* The events a pointer frame of the compositor may carry: the surface is
\* the wl_surface of a surface created so far.
PointerEvents ==
    {[kind |-> k, surface |-> w, button |-> 0] :
        k \in {"Enter", "Leave"}, w \in 1..(next_surface_id - 1)}
    \cup {[kind |-> "Motion", surface |-> 0, button |-> 0]}
    \cup {[kind |-> k, surface |-> 0, button |-> b] :
            k \in {"Press", "Release"}, b \in Buttons}

\* The translation with the codes of the right and the middle button
\* exchanged.
ButtonNum_swapped(button) ==
    CASE button = BTN_LEFT -> 1
      [] button = BTN_RIGHT -> 2
      [] button = BTN_MIDDLE -> 3
      [] OTHER -> button

\* let button_num = match button { 272 => 1, 273 => 3, 274 => 2, _ => button }
ButtonNum(button) ==
    CASE button = BTN_LEFT -> 1
      [] button = BTN_RIGHT -> 3
      [] button = BTN_MIDDLE -> 2
      [] OTHER -> button

\* The body of the loop with a PointerLeave that clears the hover flag of
\* every icon.
HandleInput_leave_clears_all(r, event, click_fail) ==
    LET st == r.st
        mapped == /\ event.surface_id \in DOMAIN st.surface_to_path
                  /\ st.surface_to_path[event.surface_id] \in DOMAIN st.icons
        path == st.surface_to_path[event.surface_id]
    IN CASE event.kind = "PointerEnter" /\ mapped ->
              [st |-> [st EXCEPT !.icons[path] = SetHovered(@, TRUE),
                                 !.needs_render = TRUE],
               clicks |-> r.clicks]
         [] event.kind = "PointerLeave" /\ mapped ->
              [st |-> [st EXCEPT
                         !.icons = [p \in DOMAIN @ |-> SetHovered(@[p], FALSE)],
                         !.needs_render = TRUE],
               clicks |-> r.clicks]
         [] event.kind = "PointerButton" /\ event.pressed /\ mapped ->
              LET button_num == ButtonNum(event.button)
              IN [st |-> IF button_num \in click_fail THEN st
                         ELSE [st EXCEPT !.needs_render = TRUE],
                  clicks |-> Append(r.clicks,
                                    [path |-> path, button |-> button_num,
                                     code |-> event.button])]
         [] OTHER -> r

\* The body of the loop of handle_wayland_input for one event.  click_fail
\* holds the button numbers for which icon.on_click returns Err.
HandleInput(r, event, click_fail) ==
    LET st == r.st
        mapped == /\ event.surface_id \in DOMAIN st.surface_to_path
                  /\ st.surface_to_path[event.surface_id] \in DOMAIN st.icons
        path == st.surface_to_path[event.surface_id]
    IN CASE event.kind \in {"PointerEnter", "PointerLeave"} /\ mapped ->
              [st |-> [st EXCEPT
                         !.icons[path] =
                             SetHovered(@, event.kind = "PointerEnter"),
                         !.needs_render = TRUE],
               clicks |-> r.clicks]
         [] event.kind = "PointerButton" /\ event.pressed /\ mapped ->
              LET button_num == ButtonNum(event.button)
              IN [st |-> IF button_num \in click_fail THEN st
                         ELSE [st EXCEPT !.needs_render = TRUE],
                  clicks |-> Append(r.clicks,
                                    [path |-> path, button |-> button_num,
                                     code |-> event.button])]
         [] OTHER -> r

\* take_input_events handing out a copy of the queue.
take_input_events_clone(queue) ==
    [events |-> queue, input_events |-> queue]

\* WaylandState::take_input_events: std::mem::take hands out the queue and
\* leaves an empty one.
take_input_events(queue) ==
    [events |-> queue, input_events |-> <<>>]

\* IconDaemon::handle_wayland_input over the events take_input_events
\* returned.
RECURSIVE handle_wayland_input(_, _, _)
handle_wayland_input(r, events, click_fail) ==
    IF events = <<>>
    THEN r
    ELSE handle_wayland_input(HandleInput(r, Head(events), click_fail),
                              Tail(events), click_fail)

\* WaylandState::should_exit behind IconDaemon::wayland_should_exit
wayland_should_exit == wayland /\ exit

\* IconDaemon::scan_desktop over the entries read_dir yields, in the order
\* it yields them: hidden entries are skipped, a failing add_icon ends the
\* scan through `?`.  Each turn of the loop finds the directory as it is
\* when the turn runs.
RECURSIVE ScanEntries(_, _)
ScanEntries(st, entries) ==
    IF entries = <<>>
    THEN [st |-> st, ok |-> TRUE]
    ELSE IF IsHidden(Head(entries))
    THEN ScanEntries(NextView(st), Tail(entries))
    ELSE LET r == add_icon(st, Head(entries))
         IN IF r.ok THEN ScanEntries(NextView(r.st), Tail(entries))
            ELSE [st |-> r.st, ok |-> FALSE]

\* The orders in which read_dir may yield the entries of a directory.
Listings(dir) ==
    {s \in UNION {[1..n -> dir] : n \in {Cardinality(dir)}} :
        \A i, j \in DOMAIN s : i # j => s[i] # s[j]}

\* ------------------------------------------------------------------ Init

NoLast == [op |-> "none", ev |-> NoEvent, pre |-> {}, failed |-> {},
           clicks |-> <<>>, moves |-> <<>>, turn |-> <<>>]

\* The initial screen dimensions of IconDaemon::new: those the compositor
\* client reports, or 1920x1080.
InitialDimensions(wm, outs) ==
    IF wm
    THEN UnwrapOr(get_output_dimensions(outs), <<DefaultWidth, DefaultHeight>>)
    ELSE <<DefaultWidth, DefaultHeight>>

\* No attach_buffer call on pixel bytes was made.
NoCall == [op |-> "none"]

\* The directories a run starts in: none, one or two visible entries, a
\* visible entry beside a hidden one, and a hidden entry beside the one
\* whose name is not UTF-8.
InitialDirs ==
    {{}, {PathA}, {PathA, PathB}, {PathA, PathH}, {PathH, PathX}}

\* The struct literal of IconDaemon::new and of WaylandManager::new, before
\* the initial scan.  The compositor connection was made or not.
Constructed ==
    /\ icons = EmptyMap
    /\ surface_to_path = EmptyMap
    /\ path_to_surface = EmptyMap
    /\ needs_render = TRUE
    /\ wayland \in BOOLEAN
    /\ outputs = <<>>
    /\ screen_width = InitialDimensions(wayland, <<>>)[1]
    /\ screen_height = InitialDimensions(wayland, <<>>)[2]
    /\ surfaces = EmptyMap
    /\ surface_ids = EmptyMap
    /\ next_surface_id = 1
    /\ input_events = <<>>
    /\ pointer_surface = <<>>
    /\ exit = FALSE
    /\ pending_events = <<>>
    /\ should_update_icons = FALSE
    /\ should_stop = FALSE
    /\ pc = "new"
    /\ fs \in InitialDirs
    /\ chan = <<>>
    /\ faithful = TRUE
    /\ created = <<>>
    /\ retired = {}
    /\ delivered = <<>>
    /\ applied = <<>>
    /\ queued = <<>>
    /\ handled = <<>>
    /\ focus = None
    /\ orderly = TRUE
    /\ last = NoLast

Init == Constructed /\ budget = MaxEnvEvents /\ call = NoCall

\* ------------------------------------------------------------------ the environment as a value

Record(kind, paths) == [kind |-> kind, paths |-> paths]

\* The directory, the channel of the watcher and the bounds on what the
\* environment does.
Env ==
    [fs |-> fs, chan |-> chan, budget |-> budget, faithful |-> faithful]

SetEnv(e) ==
    /\ fs' = e.fs
    /\ chan' = e.chan
    /\ budget' = e.budget
    /\ faithful' = e.faithful

\* Entries appear in the directory; a watcher that exists (sent) reports
\* them in one record.
Created(e, paths, sent) ==
    [e EXCEPT !.fs = @ \cup SeqToSet(paths),
              !.chan = IF sent THEN Append(@, Record("Create", paths)) ELSE @,
              !.budget = @ - 1]

\* Entries disappear from the directory.
Removed(e, paths, sent) ==
    [e EXCEPT !.fs = @ \ SeqToSet(paths),
              !.chan = IF sent THEN Append(@, Record("Remove", paths)) ELSE @,
              !.budget = @ - 1]

\* Entries are written to.
Modified(e, paths) ==
    [e EXCEPT !.chan = Append(@, Record("Modify", paths)),
              !.budget = @ - 1]

\* The watcher sends a message that reports no change.
Noised(e, kind) ==
    [e EXCEPT !.chan = Append(@, Record(kind, <<>>)),
              !.budget = @ - 1]

\* The watcher reports the change it reported last a second time.
Repeated(e) ==
    [e EXCEPT !.chan = Append(@, e.chan[Len(e.chan)]),
              !.budget = @ - 1,
              !.faithful = FALSE]

\* What one step of the environment makes of e: other processes create
\* and remove the entries of one of the lists `others`, and, when the
\* watcher exists, write to them, and the watcher sends what it sends.
EnvSteps(e, others, sent) ==
    IF e.budget = 0 \/ others = {}
    THEN {}
    ELSE {Created(e, paths, sent) :
             paths \in {l \in others : SeqToSet(l) \cap e.fs = {}}}
         \cup {Removed(e, paths, sent) :
                  paths \in {l \in others : SeqToSet(l) \subseteq e.fs}}
         \cup (IF sent
               THEN {Modified(e, paths) :
                        paths \in {l \in others : SeqToSet(l) \subseteq e.fs}}
                    \cup {Noised(e, kind) : kind \in {"Error", "Access"}}
                    \cup (IF e.chan # <<>> THEN {Repeated(e)} ELSE {})
               ELSE {})

\* What the environment makes of e in any number of steps.
RECURSIVE Meanwhile(_, _, _)
Meanwhile(e, others, sent) ==
    {e} \cup UNION {Meanwhile(e2, others, sent) :
                       e2 \in EnvSteps(e, others, sent)}

\* An operation reads the directory n times.  The environments it may find
\* at its second to its n-th read, the first one finding e.
RECURSIVE Between(_, _, _, _)
Between(e, n, others, sent) ==
    IF n <= 1
    THEN {<<>>}
    ELSE UNION {{<<e2>> \o rest : rest \in Between(e2, n - 1, others, sent)} :
                   e2 \in Meanwhile(e, others, sent)}

\* The directories of a sequence of environments.
Views(envs) == [i \in DOMAIN envs |-> envs[i].fs]

\* The environment after the last read of an operation.
Final(e, envs) == IF envs = <<>> THEN e ELSE envs[Len(envs)]

\* ------------------------------------------------------------------ construction

\* IconDaemon::new from the scan on: scan_desktop, whose error fails the
\* construction.  read_dir fails when the directory cannot be read (it is a
\* regular file, or access is denied).  A directory that does not exist has
\* no entries, and the early return leaves what the scan of no entries
\* leaves.  read_dir lists the entries, and the loop meets them one by one:
\* other processes create and remove entries, among those of `others`,
\* after the listing and between two turns of the loop, and no watcher
\* exists that would report it.
ScanDesktopAmid(others) ==
    /\ pc = "new"
    /\ \E read_dir_ok \in BOOLEAN, entries \in Listings(fs) :
         \E envs \in Between(Env, IF read_dir_ok THEN Len(entries) + 1 ELSE 1,
                             others, FALSE) :
            LET r == IF read_dir_ok
                     THEN ScanEntries(NextView(WithViews(Cur, Views(envs))),
                                      entries)
                     ELSE [st |-> Cur, ok |-> FALSE]
            IN /\ Commit(r.st)
               /\ pc' = IF r.ok THEN "constructed" ELSE "failed"
               /\ SetEnv(Final(Env, envs))
               /\ last' = Last("scan", NoEvent, {})
    /\ UNCHANGED <<wayland, outputs, call, histVars, inputVars, loopVars>>

ScanDesktop == ScanDesktopAmid(PathLists)

\* IconDaemon::setup_watcher, called at the start of run(): from here on
\* the watcher reports the changes of the directory.  RecommendedWatcher::new
\* and watcher.watch may fail (the latter does for a directory that does not
\* exist), and run() returns their error.
SetupWatcher ==
    /\ pc = "constructed"
    /\ \E watcher_ok \in BOOLEAN :
         pc' = IF watcher_ok THEN "init_render" ELSE "run_failed"
    /\ last' = Last("setup_watcher", NoEvent, {})
    /\ UNCHANGED <<daemonVars, wayland, outputs, call, histVars,
                   waylandVars, loopVars, fs, chan,
                   budget, faithful, obsVars>>

\* ------------------------------------------------------------------ the loop of run()

\* The positions of run() from the return of setup_watcher to the return of
\* run().
LoopPositions ==
    {"init_render", "dispatch_wayland", "input", "geometry", "calloop",
     "process_fs", "tick", "render", "exit_check"}

\* The watcher thread runs beside run(): it reports what happens in the
\* directory wherever run() is, until the channel is closed.
Watching == pc \in LoopPositions /\ ~should_stop

\* The daemon is constructed and run() has not returned: between
\* IconDaemon::new and setup_watcher, and in the loop.
Running == pc \in {"constructed"} \cup LoopPositions

\* render_icons_to_surfaces, called once before the loop and once per turn.
Render ==
    /\ pc \in {"init_render", "render"}
    /\ \E raster_fail, alloc_fail \in SUBSET Paths :
         LET r == render_icons_to_surfaces(Cur, raster_fail, alloc_fail)
         IN /\ raster_fail \cup alloc_fail \subseteq DOMAIN path_to_surface
            /\ Commit(r.st)
            /\ last' = [Last(IF r.ran THEN "render" ELSE "render_skipped",
                             NoEvent, r.failed)
                        EXCEPT !.turn = IF pc = "init_render" THEN <<>> ELSE @]
    /\ pc' = IF pc = "init_render" THEN "dispatch_wayland" ELSE "exit_check"
    /\ UNCHANGED <<wayland, outputs, call, histVars,
                   inputVars, loopVars, fs, chan, budget, faithful>>

\* LayerShellHandler::configure, run by dispatch_wayland for a configure
\* event of the compositor.
Configure(wl_surface) ==
    /\ pc = "dispatch_wayland"
    /\ wayland
    /\ wl_surface \in DOMAIN surface_ids
    /\ LET surface_id == surface_ids[wl_surface]
       IN /\ surface_id \in DOMAIN surfaces
          /\ surfaces' = [surfaces EXCEPT ![surface_id].configured = TRUE]
    /\ last' = Last("configure", NoEvent, {})
    /\ UNCHANGED <<daemonVars, wayland, outputs, call, histVars,
                   surface_ids, next_surface_id,
                   inputVars, loopVars, pc, fs, chan, budget, faithful,
                   obsVars>>

\* LayerShellHandler::closed, run by dispatch_wayland when the compositor
\* closes a layer surface.
Closed(wl_surface) ==
    /\ pc = "dispatch_wayland"
    /\ wayland
    /\ budget > 0
    /\ wl_surface \in DOMAIN surface_ids
    /\ LET surface_id == surface_ids[wl_surface]
       IN /\ surfaces' = MapDel(surfaces, surface_id)
          /\ surface_ids' = MapDel(surface_ids, wl_surface)
    /\ budget' = budget - 1
    /\ UNCHANGED faithful
    /\ last' = Last("closed", NoEvent, {})
    /\ UNCHANGED <<daemonVars, wayland, outputs, call, histVars,
                   next_surface_id, inputVars, loopVars,
                   pc, fs, chan, obsVars>>

\* PointerHandler::pointer_frame, run by dispatch_wayland for a frame that
\* carries one pointer event.
PointerFrame(event) ==
    /\ pc = "dispatch_wayland"
    /\ wayland
    /\ budget > 0
    /\ CASE event.kind = "Enter" /\ event.surface \in DOMAIN surface_ids ->
              /\ pointer_surface' = <<surface_ids[event.surface]>>
              /\ input_events' =
                    Append(input_events,
                           PointerEnter(surface_ids[event.surface]))
         [] event.kind = "Leave" /\ event.surface \in DOMAIN surface_ids ->
              /\ pointer_surface' = <<>>
              /\ input_events' =
                    Append(input_events,
                           PointerLeave(surface_ids[event.surface]))
         [] event.kind = "Motion" /\ pointer_surface # <<>> ->
              /\ input_events' =
                    Append(input_events, PointerMotion(pointer_surface[1]))
              /\ UNCHANGED pointer_surface
         [] event.kind \in {"Press", "Release"} /\ pointer_surface # <<>> ->
              /\ input_events' =
                    Append(input_events,
                           PointerButton(pointer_surface[1], event.button,
                                         event.kind = "Press"))
              /\ UNCHANGED pointer_surface
         [] OTHER -> UNCHANGED <<input_events, pointer_surface>>
    /\ queued' = queued \o SubSeq(input_events', Len(input_events) + 1,
                                   Len(input_events'))
    /\ focus' = CASE event.kind = "Enter" -> Some(event.surface)
                   [] event.kind = "Leave" -> None
                   [] OTHER -> focus
    /\ orderly' = (/\ orderly
                   /\ event.kind = "Enter" => focus = None
                   /\ event.kind = "Leave" => focus = Some(event.surface))
    /\ budget' = budget - 1
    /\ last' = Last("pointer", NoEvent, {})
    /\ UNCHANGED <<daemonVars, wayland, outputs, call, delivered, applied,
                   handled, surfaces, surface_ids,
                   next_surface_id, exit, loopVars, pc, fs, chan, faithful,
                   obsVars>>

\* The OutputInfo an output may have: no size known yet, the current mode
\* only, or a logical size next to the mode of a scaled output.
OutputInfos ==
    {[logical_size |-> None, mode |-> None],
     [logical_size |-> None, mode |-> Some(<<1920, 1080>>)],
     [logical_size |-> Some(<<1280, 720>>), mode |-> Some(<<2560, 1440>>)]}

\* OutputHandler::new_output, run by dispatch_wayland when the compositor
\* announces an output: it is pushed to the list.
NewOutput(info) ==
    /\ pc = "dispatch_wayland"
    /\ wayland
    /\ budget > 0
    /\ outputs' = Append(outputs, info)
    /\ budget' = budget - 1
    /\ last' = Last("new_output", NoEvent, {})
    /\ UNCHANGED <<daemonVars, wayland, call, histVars, waylandVars, loopVars,
                   pc, fs, chan, faithful, obsVars>>

\* OutputHandler::update_output, run by dispatch_wayland when the
\* compositor changes what it reports for an output: the list is left as it
\* is, the info of the output is the new one.
UpdateOutput(i, info) ==
    /\ pc = "dispatch_wayland"
    /\ wayland
    /\ budget > 0
    /\ i \in DOMAIN outputs
    /\ outputs[i] # info
    /\ outputs' = [outputs EXCEPT ![i] = info]
    /\ budget' = budget - 1
    /\ last' = Last("update_output", NoEvent, {})
    /\ UNCHANGED <<daemonVars, wayland, call, histVars, waylandVars, loopVars,
                   pc, fs, chan, faithful, obsVars>>

\* OutputHandler::output_destroyed: outputs.retain(|o| o != &output).
OutputDestroyed(i) ==
    /\ pc = "dispatch_wayland"
    /\ wayland
    /\ budget > 0
    /\ i \in DOMAIN outputs
    /\ outputs' = [j \in 1..(Len(outputs) - 1) |->
                     IF j < i THEN outputs[j] ELSE outputs[j + 1]]
    /\ budget' = budget - 1
    /\ last' = Last("output_destroyed", NoEvent, {})
    /\ UNCHANGED <<daemonVars, wayland, call, histVars, waylandVars, loopVars,
                   pc, fs, chan, faithful, obsVars>>

\* run() without its call of handle_wayland_input.
WaylandDispatched_skips_input ==
    /\ pc = "dispatch_wayland"
    /\ pc' = "calloop"
    /\ UNCHANGED <<daemonVars, wayland, outputs, call, histVars,
                   waylandVars, loopVars, fs, chan,
                   budget, faithful, obsVars, last>>

\* dispatch_wayland returns; the loop goes on to handle_wayland_input.
WaylandDispatched ==
    /\ pc = "dispatch_wayland"
    /\ pc' = "input"
    /\ UNCHANGED <<daemonVars, wayland, outputs, call, histVars,
                   waylandVars, loopVars, fs, chan,
                   budget, faithful, obsVars, last>>

\* IconDaemon::handle_wayland_input on the drained input queue; the loop
\* goes on to update_screen_dimensions.
HandleWaylandInput ==
    /\ pc = "input"
    /\ IF wayland
       THEN \E click_fail \in SUBSET {ButtonNum(b) : b \in Buttons} :
              LET taken == take_input_events(input_events)
                  r == handle_wayland_input([st |-> Cur, clicks |-> <<>>],
                                            taken.events, click_fail)
              IN /\ click_fail \subseteq
                       {ButtonNum(input_events[i].button) :
                          i \in {j \in DOMAIN input_events :
                                   input_events[j].pressed}}
                 /\ Commit(r.st)
                 /\ input_events' = taken.input_events
                 /\ handled' = handled \o taken.events
                 /\ last' = IF input_events = <<>> THEN last
                            ELSE [Last("input", NoEvent, click_fail)
                                    EXCEPT !.clicks = r.clicks]
       ELSE UNCHANGED <<daemonVars, surfaces, surface_ids, next_surface_id,
                        input_events, handled, obsVars, last>>
    /\ pc' = "geometry"
    /\ UNCHANGED <<wayland, outputs, call, delivered, applied, queued, focus,
                   orderly, pointer_surface, exit, loopVars, fs, chan, budget,
                   faithful>>

\* update_screen_dimensions, called once per turn after the input
\* handling; the loop goes on to the calloop dispatch.
UpdateScreenDimensions ==
    /\ pc = "geometry"
    /\ \E order \in Listings(DOMAIN path_to_surface) :
         LET r == update_screen_dimensions(Cur, outputs, order)
         IN /\ Commit(r.st)
            /\ last' = [Last(IF r.repositioned THEN "reposition"
                             ELSE "geometry", NoEvent, {})
                        EXCEPT !.moves = r.moves]
    /\ pc' = "calloop"
    /\ UNCHANGED <<wayland, outputs, call, histVars, inputVars, loopVars, fs,
                   chan, budget, faithful>>

\* The channel callback of run() for a message: a record is queued, an
\* error is logged.
ChannelMsg ==
    /\ pc = "calloop"
    /\ chan # <<>>
    /\ chan' = Tail(chan)
    /\ pending_events' = IF Head(chan).kind = "Error" THEN pending_events
                         ELSE Append(pending_events, Head(chan))
    /\ delivered' = IF Head(chan).kind = "Error" THEN delivered
                    ELSE Append(delivered, Head(chan))
    /\ UNCHANGED <<daemonVars, wayland, outputs, call, applied, pointerVars,
                   waylandVars, should_update_icons,
                   should_stop, pc, fs, budget, faithful, obsVars, last>>

\* The channel callback of run() for Closed, which calloop delivers once
\* every queued message has been delivered.
ChannelClosed ==
    /\ pc = "calloop"
    /\ budget > 0
    /\ chan = <<>>
    /\ ~should_stop
    /\ should_stop' = TRUE
    /\ budget' = budget - 1
    /\ UNCHANGED <<daemonVars, wayland, outputs, call, histVars,
                   waylandVars, pending_events,
                   should_update_icons, pc, fs, chan, faithful, obsVars, last>>

\* event_loop.dispatch returns an error, which run() returns through `?`.
DispatchFails ==
    /\ pc = "calloop"
    /\ pc' = "run_failed"
    /\ UNCHANGED <<daemonVars, wayland, outputs, call, histVars,
                   waylandVars, loopVars, fs, chan,
                   budget, faithful, obsVars, last>>

\* The timer callback of run().
TimerFired ==
    /\ pc = "calloop"
    /\ should_update_icons' = TRUE
    /\ UNCHANGED <<daemonVars, wayland, outputs, call, histVars,
                   waylandVars, pending_events,
                   should_stop, pc, fs, chan, budget, faithful, obsVars, last>>

\* event_loop.dispatch returns.
CalloopDispatched ==
    /\ pc = "calloop"
    /\ pc' = "process_fs"
    /\ UNCHANGED <<daemonVars, wayland, outputs, call, histVars,
                   waylandVars, loopVars, fs, chan,
                   budget, faithful, obsVars, last>>

\* The drain loop taking the records from the back of the queue.
HandleFsEvent_from_back ==
    /\ pc = "process_fs"
    /\ pending_events # <<>>
    /\ LET event == pending_events[Len(pending_events)]
       IN \E envs \in Between(Env, Len(event.paths), PathLists, Watching) :
            LET r == handle_fs_event(WithViews(Cur, Views(envs)), event)
            IN /\ Commit(r.st)
               /\ SetEnv(Final(Env, envs))
               /\ last' = Last(IF r.ok THEN "fs_event" ELSE "fs_event_err",
                               event, {})
               /\ applied' = Append(applied, event)
    /\ pending_events' = SubSeq(pending_events, 1, Len(pending_events) - 1)
    /\ UNCHANGED <<wayland, outputs, call, delivered, pointerVars,
                   inputVars, should_update_icons, should_stop, pc>>

\* The drain loop calling `self.handle_fs_event(event)?`: an error of the
\* handler is returned by run().
HandleFsEvent_stops_on_error ==
    /\ pc = "process_fs"
    /\ pending_events # <<>>
    /\ \E envs \in Between(Env, Len(Head(pending_events).paths),
                            PathLists, Watching) :
         LET r == handle_fs_event(WithViews(Cur, Views(envs)),
                                  Head(pending_events))
         IN /\ Commit(r.st)
            /\ SetEnv(Final(Env, envs))
            /\ last' = Last(IF r.ok THEN "fs_event" ELSE "fs_event_err",
                            Head(pending_events), {})
            /\ pc' = IF r.ok THEN pc ELSE "run_failed"
    /\ pending_events' = Tail(pending_events)
    /\ applied' = Append(applied, Head(pending_events))
    /\ UNCHANGED <<wayland, outputs, call, delivered, pointerVars,
                   inputVars, should_update_icons, should_stop>>

\* One turn of the drain loop of run(): handle_fs_event on the next pending
\* record; its error is logged.  The handler takes the paths of the record
\* one by one, and between two of them the directory changes and the
\* watcher sends as at any other time.
HandleFsEvent ==
    /\ pc = "process_fs"
    /\ pending_events # <<>>
    /\ \E envs \in Between(Env, Len(Head(pending_events).paths),
                            PathLists, Watching) :
         LET r == handle_fs_event(WithViews(Cur, Views(envs)),
                                  Head(pending_events))
         IN /\ Commit(r.st)
            /\ SetEnv(Final(Env, envs))
            /\ last' = Last(IF r.ok THEN "fs_event" ELSE "fs_event_err",
                            Head(pending_events), {})
    /\ pending_events' = Tail(pending_events)
    /\ applied' = Append(applied, Head(pending_events))
    /\ UNCHANGED <<wayland, outputs, call, delivered, pointerVars,
                   inputVars, should_update_icons, should_stop, pc>>

\* The drain loop ends.
Drained ==
    /\ pc = "process_fs"
    /\ pending_events = <<>>
    /\ pc' = "tick"
    /\ UNCHANGED <<daemonVars, wayland, outputs, call, histVars,
                   waylandVars, loopVars, fs, chan,
                   budget, faithful, obsVars, last>>

\* The tick step of run(): update_icons if the timer fired.  The table
\* yields the icons in an order of its own, update_icons takes them one by
\* one, and between two of them other processes change the directory,
\* among the entries of `others`, and the watcher sends as at any other
\* time.
TickAmid(others) ==
    /\ pc = "tick"
    /\ IF should_update_icons
       THEN \E order \in Listings(DOMAIN icons) :
              \E envs \in Between(Env, Len(order), others, Watching) :
                 LET st == WithViews(Cur, Views(envs))
                 IN /\ Commit(update_icons(st, order))
                    /\ SetEnv(Final(Env, envs))
                    /\ last' = Last("update_icons", NoEvent,
                                    ToRemove(st, order))
       ELSE UNCHANGED <<daemonVars, surfaces, surface_ids, next_surface_id,
                        obsVars, last, fs, chan, budget, faithful>>
    /\ should_update_icons' = FALSE
    /\ pc' = "render"
    /\ UNCHANGED <<wayland, outputs, call, histVars,
                   inputVars, pending_events, should_stop>>

Tick == TickAmid(PathLists)

\* The exit check without `state.should_stop ||`.
ExitCheck_ignores_stop ==
    /\ pc = "exit_check"
    /\ pc' = IF wayland_should_exit THEN "done" ELSE "dispatch_wayland"
    /\ last' = IF wayland_should_exit THEN last ELSE NoLast
    /\ UNCHANGED <<daemonVars, wayland, outputs, call, histVars,
                   waylandVars, loopVars, fs, chan,
                   budget, faithful, obsVars>>

\* The exit check at the end of a turn.  A new turn starts with an empty
\* record of what ran.
ExitCheck ==
    /\ pc = "exit_check"
    /\ pc' = IF should_stop \/ wayland_should_exit THEN "done"
             ELSE "dispatch_wayland"
    /\ last' = IF should_stop \/ wayland_should_exit THEN last ELSE NoLast
    /\ UNCHANGED <<daemonVars, wayland, outputs, call, histVars,
                   waylandVars, loopVars, fs, chan,
                   budget, faithful, obsVars>>

\* WaylandState::request_exit, which code that holds the compositor state
\* may call while dispatch_wayland runs its handlers.
RequestExit ==
    /\ pc = "dispatch_wayland"
    /\ wayland
    /\ budget > 0
    /\ ~exit
    /\ exit' = TRUE
    /\ budget' = budget - 1
    /\ UNCHANGED <<daemonVars, wayland, outputs, call, histVars,
                   surfaces, surface_ids, next_surface_id, input_events,
                   pointer_surface, loopVars, pc, fs, chan, faithful,
                   obsVars, last>>

\* ------------------------------------------------------------------ the environment

\* Entries appear in the directory; the watcher, once it exists, reports
\* them in one record.
FsCreate(paths) ==
    /\ Running
    /\ budget > 0
    /\ SeqToSet(paths) \cap fs = {}
    /\ SetEnv(Created(Env, paths, Watching))
    /\ UNCHANGED <<daemonVars, wayland, outputs, call, histVars,
                   waylandVars, loopVars, pc, obsVars, last>>

\* Entries disappear from the directory.
FsRemove(paths) ==
    /\ Running
    /\ budget > 0
    /\ SeqToSet(paths) \subseteq fs
    /\ SetEnv(Removed(Env, paths, Watching))
    /\ UNCHANGED <<daemonVars, wayland, outputs, call, histVars,
                   waylandVars, loopVars, pc, obsVars, last>>

\* Entries are written to.
FsModify(paths) ==
    /\ Watching
    /\ budget > 0
    /\ SeqToSet(paths) \subseteq fs
    /\ SetEnv(Modified(Env, paths))
    /\ UNCHANGED <<daemonVars, wayland, outputs, call, histVars,
                   waylandVars, loopVars, pc, obsVars, last>>

\* The watcher sends a message that reports no change: an error, or a
\* record of a kind the daemon ignores (an access).
WatcherNoise(kind) ==
    /\ Watching
    /\ budget > 0
    /\ SetEnv(Noised(Env, kind))
    /\ UNCHANGED <<daemonVars, wayland, outputs, call, histVars,
                   waylandVars, loopVars, pc, obsVars, last>>

\* The watcher reports the change it reported last a second time.
WatcherRepeat ==
    /\ Watching
    /\ budget > 0
    /\ chan # <<>>
    /\ SetEnv(Repeated(Env))
    /\ UNCHANGED <<daemonVars, wayland, outputs, call, histVars,
                   waylandVars, loopVars, pc, obsVars, last>>

\* ------------------------------------------------------------------ specification

Next ==
    \/ ScanDesktop
    \/ SetupWatcher
    \/ Render
    \/ \E w \in DOMAIN surface_ids : Configure(w)
    \/ \E w \in DOMAIN surface_ids : Closed(w)
    \/ \E event \in PointerEvents : PointerFrame(event)
    \/ \E info \in OutputInfos : NewOutput(info)
    \/ \E i \in 1..MaxEnvEvents, info \in OutputInfos : UpdateOutput(i, info)
    \/ \E i \in 1..MaxEnvEvents : OutputDestroyed(i)
    \/ WaylandDispatched
    \/ HandleWaylandInput
    \/ UpdateScreenDimensions
    \/ ChannelMsg
    \/ ChannelClosed
    \/ DispatchFails
    \/ TimerFired
    \/ CalloopDispatched
    \/ HandleFsEvent
    \/ Drained
    \/ Tick
    \/ ExitCheck
    \/ RequestExit
    \/ \E paths \in PathLists : FsCreate(paths)
    \/ \E paths \in PathLists : FsRemove(paths)
    \/ \E paths \in PathLists : FsModify(paths)
    \/ \E kind \in {"Error", "Access"} : WatcherNoise(kind)
    \/ WatcherRepeat

Spec == Init /\ [][Next]_vars

\* The daemon with a compositor that configures its surfaces and does
\* nothing else, and a directory that nobody touches: construction and the
\* statements of the loop of run(), which follow one another without
\* waiting for anything but the calloop dispatch, and that returns after
\* its timeout at the latest.
LoopStep ==
    \/ ScanDesktopAmid({})
    \/ SetupWatcher
    \/ Render
    \/ WaylandDispatched
    \/ HandleWaylandInput
    \/ UpdateScreenDimensions
    \/ CalloopDispatched
    \/ Drained
    \/ TickAmid({})
    \/ ExitCheck

QuietNext ==
    \/ LoopStep
    \/ \E w \in DOMAIN surface_ids : Configure(w)
    \/ TimerFired
    \/ DispatchFails

\* The loop under fair scheduling: the daemon keeps taking its steps, and
\* the periodic timer fires again and again.
QuietSpec ==
    Init /\ [][QuietNext]_vars /\ WF_vars(LoopStep) /\ SF_vars(TimerFired)

\* ------------------------------------------------------------------ pointer input alone

\* Number of events of the environment in a run that is about the pointer:
\* pointer frames, closes of layer surfaces, and changes of one entry of the
\* watched directory.
MaxPointerEvents == 4

\* The daemon with a compositor client, constructed over a directory with two
\* visible entries.
PointerInit ==
    /\ Constructed
    /\ budget = MaxPointerEvents
    /\ wayland
    /\ fs = {PathA, PathB}
    /\ call = NoCall

\* The loop of run() with a compositor that closes surfaces and sends the
\* frames of a pointer with one button, and a watcher that reports removals
\* of and writes to one entry.  The surfaces stay unconfigured, and the
\* timer does not fire: no handler of pointer input reads either.
PointerNext ==
    \/ LoopStep
    \/ \E w \in DOMAIN surface_ids : Closed(w)
    \/ \E event \in PointerEvents :
          event.button \in {0, BTN_LEFT} /\ PointerFrame(event)
    \/ FsRemove(<<PathA>>)
    \/ FsModify(<<PathA>>)
    \/ ChannelMsg
    \/ HandleFsEvent

PointerSpec == PointerInit /\ [][PointerNext]_vars

\* ------------------------------------------------------------------ attach_buffer alone

\* Number of pixels of the slices attach_buffer is called with.
MaxPixels == 2

\* RGBA pixels, each with four different channel values or with equal ones.
PixelValues == {<<1, 2, 3, 4>>, <<255, 128, 0, 255>>, <<9, 9, 9, 9>>}

RECURSIVE Flatten(_)
Flatten(ps) == IF ps = <<>> THEN <<>> ELSE Head(ps) \o Flatten(Tail(ps))

\* Pixel slices: up to MaxPixels whole pixels, and those with the last byte
\* missing.
WholeSlices ==
    {Flatten(ps) : ps \in UNION {[1..n -> PixelValues] : n \in 0..MaxPixels}}
PixelSlices ==
    WholeSlices \cup
    {SubSeq(s, 1, Len(s) - 1) : s \in {t \in WholeSlices : t # <<>>}}

\* Widths and heights: small ones, and ones whose product with 4 passes
\* u32::MAX (2^15, 2^16, 2^30 + 1).
Dimensions == {0, 1, 2, 32768, 65536, 1073741825}

\* What the memory handed out by the pool may hold: zeros, or the bytes of
\* an earlier buffer.
StaleBytes == {0, 77}

\* The calls of attach_buffer for a surface of the table.
AttachInit ==
    /\ Constructed
    /\ budget = MaxEnvEvents
    /\ wayland
    /\ fs = {}
    /\ call \in [op : {"args"},
                 configured : BOOLEAN,
                 pixels : PixelSlices,
                 width : Dimensions,
                 height : Dimensions,
                 overflow_checks : BOOLEAN,
                 alloc_ok : BOOLEAN,
                 stale : StaleBytes,
                 res : {"none"},
                 len : {<<>>},
                 canvas : {<<>>}]

\* WaylandState::attach_buffer is applied to the arguments drawn.  Of a
\* canvas longer than every slice drawn, the bytes of the longest slice and
\* of one pixel more are held.
AttachBuffer ==
    /\ call.op = "args"
    /\ LET r == AttachBytes(call.configured, call.pixels, call.width,
                            call.height, call.overflow_checks, call.alloc_ok,
                            call.stale, 4 * MaxPixels + 4)
       IN call' = [call EXCEPT !.op = "attach", !.res = r.res,
                               !.len = r.len, !.canvas = r.canvas]
    /\ UNCHANGED <<daemonVars, wayland, outputs, histVars, waylandVars,
                   loopVars, pc, fs, chan, budget, faithful, obsVars, last>>

AttachNext == AttachBuffer

AttachSpec == AttachInit /\ [][AttachNext]_vars

TypeOK ==
    /\ DOMAIN icons \subseteq Paths
    /\ needs_render \in BOOLEAN
    /\ screen_width \in Nat
    /\ screen_height \in Nat
    /\ next_surface_id \in Nat
    /\ Len(outputs) <= MaxEnvEvents
    /\ call = NoCall

\* ------------------------------------------------------------------ properties

Range(f) == {f[x] : x \in DOMAIN f}

\* C1: path_to_surface and surface_to_path are inverses of each other in
\* every reachable state, and they hold only ids that create_surface
\* returned to a daemon with a compositor client: an icon for which no
\* surface was created is on neither side.
C1_BimapInverse ==
    /\ \A path \in DOMAIN path_to_surface :
          /\ path_to_surface[path] \in DOMAIN surface_to_path
          /\ surface_to_path[path_to_surface[path]] = path
    /\ \A surface_id \in DOMAIN surface_to_path :
          /\ surface_to_path[surface_id] \in DOMAIN path_to_surface
          /\ path_to_surface[surface_to_path[surface_id]] = surface_id
    /\ \A path \in DOMAIN path_to_surface :
          wayland /\ path_to_surface[path] \in Range(created)
    /\ ~wayland => path_to_surface = EmptyMap /\ surface_to_path = EmptyMap

\* C1 witness: two icons are mapped after an icon was removed.
C1_Witness ==
    /\ Cardinality(DOMAIN path_to_surface) = 2
    /\ retired # {}

\* C2: a surface that holds an attached buffer has been configured.
C2_BufferOnlyIfConfigured ==
    \A surface_id \in DOMAIN surfaces :
        surfaces[surface_id].buffer # NoBuffer => surfaces[surface_id].configured

\* C2 witness: a render pass attached a buffer to one surface while another
\* surface of the same pass is still unconfigured and has none.
C2_Witness ==
    /\ last.op = "render"
    /\ \E s, t \in DOMAIN surfaces :
          /\ surfaces[s].buffer # NoBuffer
          /\ ~surfaces[t].configured
          /\ surfaces[t].buffer = NoBuffer

\* C3: after a render pass that ran (dirty flag set, compositor client
\* present), the dirty flag is false if no icon of the pass failed to
\* rasterise or attach, and still true if one did.
C3_DirtyIffPassFailed ==
    last.op = "render" => (needs_render <=> last.failed # {})

\* An icon with a live surface whose buffer does not show the icon's
\* current visual state.
Stale(path) ==
    /\ path \in DOMAIN icons
    /\ path \in DOMAIN path_to_surface
    /\ path_to_surface[path] \in DOMAIN surfaces
    /\ surfaces[path_to_surface[path]].buffer # SomeBuffer(Pixels(icons[path]))

\* C4: at the end of a loop turn, the dirty flag is true if some icon with
\* a surface has a visual state that no attached buffer reflects.
C4_StaleImpliesDirty ==
    pc = "exit_check" => ((\E path \in Paths : Stale(path)) => needs_render)

\* The file name begins with '.', whatever bytes follow.
BeginsWithDot(path) == Len(path) > 0 /\ path[1] = "."

\* C5: no entry whose file name begins with '.' ever has an icon.
C5_NoHiddenIcon ==
    \A path \in DOMAIN icons : ~BeginsWithDot(path)

\* All records sent so far have been handled.
Quiescent ==
    /\ pc \notin {"new", "failed"}
    /\ chan = <<>>
    /\ pending_events = <<>>

\* C6: when every record of a faithful watcher has been handled, the icon
\* table holds exactly the visible entries of the directory.
C6_IconsAreVisibleEntries ==
    (faithful /\ Quiescent) =>
        DOMAIN icons = {path \in fs : ~BeginsWithDot(path)}

\* C7: the ids create_surface returns start at 1 and strictly increase, so
\* none is returned twice.
C7_IdsIncrease ==
    /\ created # <<>> => created[1] = 1
    /\ \A i, j \in DOMAIN created : i < j => created[i] < created[j]

\* C7 witness: create_surface returned an id after a surface was destroyed
\* and after the compositor closed one.
C7_Witness ==
    /\ Len(created) >= 2
    /\ \E r \in retired : r < created[Len(created)]
    /\ \E c \in Range(created) :
          c \notin DOMAIN surfaces /\ c \notin retired /\ c < created[Len(created)]

\* C8: once remove_icon has removed P, P is in neither the icon table nor
\* either side of the bimap, and the surface-id it held is bound to no
\* icon ever after.
C8_RemovedIsGoneForGood ==
    /\ (last.op = "fs_event" /\ last.ev.kind = "Remove") =>
          \A path \in SeqToSet(last.ev.paths) :
              /\ path \notin DOMAIN icons
              /\ path \notin DOMAIN path_to_surface
              /\ path \notin Range(surface_to_path)
    /\ \A surface_id \in retired :
          /\ surface_id \notin DOMAIN surface_to_path
          /\ surface_id \notin Range(path_to_surface)

\* C8 witness: a Create record bound a new icon to a surface after an
\* earlier icon and its surface-id were removed.
C8_Witness ==
    /\ last.op = "fs_event"
    /\ last.ev.kind = "Create"
    /\ retired # {}
    /\ \E path \in SeqToSet(last.ev.paths) :
          path \notin last.pre /\ path \in DOMAIN path_to_surface

\* The step of the drain loop that handles the next pending record.
HandlesNext == pc = "process_fs" /\ pending_events # <<>>
               /\ pending_events' = Tail(pending_events)

\* The environment does nothing while the step runs.
Undisturbed == budget' = budget

DuplicateAdd ==
    /\ Head(pending_events).kind = "Create"
    /\ SeqToSet(Head(pending_events).paths) \subseteq DOMAIN icons

DuplicateRemove ==
    /\ Head(pending_events).kind = "Remove"
    /\ SeqToSet(Head(pending_events).paths) \cap DOMAIN icons = {}

\* C9: adding paths that all have an icon, and removing paths none of which
\* has one, returns ok and changes neither the icon table, nor the bimap,
\* nor the surface-id counter, nor the compositor surfaces.
C9_DuplicatesAreNoOps ==
    [][(HandlesNext /\ (DuplicateAdd \/ DuplicateRemove)) =>
          /\ last'.op = "fs_event"
          /\ UNCHANGED <<icons, surface_to_path, path_to_surface,
                         next_surface_id, surfaces, surface_ids>>]_vars

\* C9 witness: a Create record was handled for a path that had an icon with
\* a surface already.
C9_Witness ==
    /\ last.op = "fs_event"
    /\ last.ev.kind = "Create"
    /\ last.ev.paths # <<>>
    /\ SeqToSet(last.ev.paths) \subseteq last.pre
    /\ SeqToSet(last.ev.paths) \subseteq DOMAIN path_to_surface

\* A Remove record was handled for a path that had no icon.
C9_RemoveCase ==
    /\ last.op = "fs_event"
    /\ last.ev.kind = "Remove"
    /\ last.ev.paths # <<>>
    /\ SeqToSet(last.ev.paths) \cap last.pre = {}
    /\ icons # EmptyMap

\* C10: after a Create record is handled, every path of its list for which
\* an icon can be constructed is in the icon table, also when the
\* directory stays as it is while the handler runs.
C10_CreateAddsEveryPath ==
    [][(/\ HandlesNext
        /\ Head(pending_events).kind = "Create"
        /\ Undisturbed) =>
          \A path \in SeqToSet(Head(pending_events).paths) :
              CanConstruct(Cur, path) => path \in DOMAIN icons']_vars

\* The paths of the record the drain loop handles next.
NextPaths == SeqToSet(Head(pending_events).paths)

\* C11: handling a Modify record whose paths all have an icon and exist
\* while the handler runs leaves the key set of the icon table unchanged;
\* with a compositor client, the old surface of each path is no longer live
\* and the path is bound to a live surface whose id was never returned
\* before.
C11_ModifyRefreshesSurface ==
    [][(/\ HandlesNext
        /\ Head(pending_events).kind = "Modify"
        /\ NextPaths \subseteq DOMAIN icons
        /\ NextPaths \subseteq fs
        /\ Undisturbed) =>
          /\ DOMAIN icons' = DOMAIN icons
          /\ wayland =>
               \A path \in NextPaths :
                  /\ path \in DOMAIN path_to_surface
                  /\ path \in DOMAIN path_to_surface'
                  /\ path_to_surface'[path] # path_to_surface[path]
                  /\ path_to_surface'[path] \notin Range(created)
                  /\ path_to_surface'[path] \in DOMAIN surfaces'
                  /\ surface_to_path'[path_to_surface'[path]] = path
                  /\ path_to_surface[path] \notin DOMAIN surfaces'
                  /\ path_to_surface[path] \notin DOMAIN surface_to_path']_vars

\* C11 witness: a Modify record was handled for a path that had an icon and
\* exists, and the path is bound to a surface created after the first one.
C11_Witness ==
    /\ last.op = "fs_event"
    /\ last.ev.kind = "Modify"
    /\ last.ev.paths # <<>>
    /\ SeqToSet(last.ev.paths) \subseteq last.pre
    /\ SeqToSet(last.ev.paths) \subseteq fs
    /\ \A path \in SeqToSet(last.ev.paths) :
          path \in DOMAIN path_to_surface /\ path_to_surface[path] \notin retired
    /\ retired # {}
    /\ Len(created) >= 2

\* C12: handling a Modify record none of whose paths has an icon changes
\* neither the icon table, nor the bimap, nor the compositor surfaces, also
\* when the paths exist on disk.
C12_ModifyUnknownIgnored ==
    [][(/\ HandlesNext
        /\ Head(pending_events).kind = "Modify"
        /\ NextPaths \cap DOMAIN icons = {}) =>
          /\ last'.op = "fs_event"
          /\ UNCHANGED <<icons, surface_to_path, path_to_surface,
                         surfaces, surface_ids, next_surface_id>>]_vars

\* C12 witness: a Modify record was handled for a path that exists on disk
\* and had no icon, and it still has none.
C12_Witness ==
    /\ last.op = "fs_event"
    /\ last.ev.kind = "Modify"
    /\ last.ev.paths # <<>>
    /\ SeqToSet(last.ev.paths) \cap last.pre = {}
    /\ SeqToSet(last.ev.paths) \subseteq fs
    /\ SeqToSet(last.ev.paths) \cap DOMAIN icons = {}

\* C13: after a Create, Remove or Modify record has been handled, whether
\* the handler returned ok or an error, the dirty flag is true.
C13_DirtyAfterFsRecord ==
    (/\ last.op \in {"fs_event", "fs_event_err"}
     /\ last.ev.kind \in {"Create", "Remove", "Modify"}) => needs_render

\* C14: when a render pass is about to attach to the live, unconfigured
\* surface of an icon, attach_buffer returns an outcome other than that of
\* a successful attach, and attaches nothing.
C14_UnconfiguredAttachIsError ==
    (pc \in {"init_render", "render"} /\ wayland /\ needs_render) =>
        \A path \in DOMAIN icons \cap DOMAIN path_to_surface :
            LET surface_id == path_to_surface[path]
                r == attach_buffer(Cur, surface_id, Pixels(icons[path]), TRUE)
            IN (surface_id \in DOMAIN surfaces
                /\ ~surfaces[surface_id].configured) =>
                   /\ r.res # "Ok"
                   /\ r.st.surfaces[surface_id].buffer = NoBuffer

\* C16: every live surface of the compositor client is bound in the bimap
\* to a path that has an icon, so that a removed icon has no live surface.
C16_LiveSurfaceHasIcon ==
    \A surface_id \in DOMAIN surfaces :
        /\ surface_id \in DOMAIN surface_to_path
        /\ surface_to_path[surface_id] \in DOMAIN icons
        /\ path_to_surface[surface_to_path[surface_id]] = surface_id

\* C16 witness: the tick-driven update removed an icon whose entry is gone,
\* while another icon keeps its live surface.
C16_Witness ==
    /\ last.op = "update_icons"
    /\ last.pre \ DOMAIN icons # {}
    /\ retired # {}
    /\ surfaces # EmptyMap

\* C19: a daemon without compositor connection is never constructed and
\* never enters the loop.
C19_NoCompositorIsFatal ==
    ~wayland => pc \in {"new", "failed"}

\* The place of a step in a loop turn.
Rank(step) ==
    CASE step = "wayland" -> 1
      [] step = "input" -> 2
      [] step = "fs" -> 3
      [] step = "tick" -> 4
      [] step = "render" -> 5

\* C17: the steps that ran in a loop turn ran in the order compositor
\* dispatch, input handling, filesystem records, tick-driven update,
\* render; and when the turn reaches its render call, no input event, no
\* filesystem record and no tick is left unhandled.
C17_TurnOrder ==
    /\ \A i, j \in DOMAIN last.turn :
          i < j => Rank(last.turn[i]) < Rank(last.turn[j])
    /\ pc = "render" =>
          /\ input_events = <<>>
          /\ pending_events = <<>>
          /\ ~should_update_icons

\* C17 witness: a turn in which a pointer event was dispatched and applied,
\* a filesystem record handled, icons updated and a render pass run.
C17_Witness ==
    /\ pc = "exit_check"
    /\ last.turn = <<"wayland", "input", "fs", "tick", "render">>

\* C18: the loop ends only at the exit check, and does so exactly when the
\* watcher channel was reported closed or the compositor client wants to
\* exit; the channel is reported closed inside the calloop dispatch, and
\* the turn in which either happens is the last one: its pending records
\* and its tick are handled, and no further turn is started.
C18_ExitAtCheck ==
    [][/\ (pc = "exit_check" /\ pc' # pc) =>
             (pc' = "done" <=> (should_stop \/ wayland_should_exit))
       /\ (pc' = "done" /\ pc # "done") =>
             /\ pc = "exit_check"
             /\ pending_events = <<>>
             /\ ~should_update_icons
       /\ (~should_stop /\ should_stop') => pc = "calloop"
       /\ (should_stop \/ wayland_should_exit) =>
             ~(pc # "dispatch_wayland" /\ pc' = "dispatch_wayland")]_vars

\* C18 witness: the loop has ended after a turn in which the channel was
\* reported closed, a pending record was handled and a render pass ran.
C18_Witness ==
    /\ pc = "done"
    /\ should_stop
    /\ \E i, j \in DOMAIN last.turn :
          last.turn[i] = "fs" /\ last.turn[j] = "render"

\* The on_click calls the specification asks for, for a queue of input
\* events: one for each pressed button on a surface bound to an icon.
RECURSIVE ExpectedClicks(_)
ExpectedClicks(events) ==
    IF events = <<>>
    THEN <<>>
    ELSE LET event == Head(events)
             code == event.button
         IN (IF /\ event.kind = "PointerButton"
                /\ event.pressed
                /\ event.surface_id \in DOMAIN surface_to_path
                /\ surface_to_path[event.surface_id] \in DOMAIN icons
             THEN <<[path |-> surface_to_path[event.surface_id],
                     button |-> IF code = 272 THEN 1
                                ELSE IF code = 273 THEN 3
                                ELSE IF code = 274 THEN 2
                                ELSE code,
                     code |-> code]>>
             ELSE <<>>) \o ExpectedClicks(Tail(events))

\* C20: handle_wayland_input calls on_click once for every pressed button
\* on a surface bound to an icon, in order, with 1 for code 272, 3 for 273,
\* 2 for 274 and the code itself otherwise.
C20_ButtonTranslation ==
    [][(pc = "input" /\ pc' # pc /\ wayland /\ input_events # <<>>) =>
          last'.clicks = ExpectedClicks(input_events)]_vars

\* C20 witness: a press of the middle button on an icon's surface was
\* handled and on_click was called with 2.
C20_Witness ==
    /\ last.op = "input"
    /\ \E i \in DOMAIN last.clicks :
          last.clicks[i].code = BTN_MIDDLE /\ last.clicks[i].button = 2

\* C21: for every pixel index i, attach_buffer writes the source pixel
\* (r, g, b, a) at bytes 4i..4i+3 as b, g, r, a at bytes 4i..4i+3 of the
\* canvas, which is as long as the slice at least, and no byte of the
\* canvas beyond the pixels copied is written: each holds what the memory
\* held before.
C21_CopySwapsRedAndBlue ==
    (call.op = "attach" /\ call.res = "Ok") =>
        /\ Len(call.canvas) = CanvasHeld(call.len, 4 * MaxPixels + 4)
        /\ Len(call.canvas) >= Len(call.pixels)
        /\ \A i \in 0..(Len(call.pixels) \div 4 - 1) :
              /\ call.canvas[4 * i + 1] = call.pixels[4 * i + 3]
              /\ call.canvas[4 * i + 2] = call.pixels[4 * i + 2]
              /\ call.canvas[4 * i + 3] = call.pixels[4 * i + 1]
              /\ call.canvas[4 * i + 4] = call.pixels[4 * i + 4]
        /\ \A k \in DOMAIN call.canvas :
              k > 4 * (Len(call.pixels) \div 4) => call.canvas[k] = call.stale

\* C21 witness: a call with two pixels for a buffer of two pixels has
\* returned Ok, and the eight bytes of the canvas, which held 77, hold the
\* channels of the two pixels as b, g, r, a.
C21_Witness ==
    /\ call.op = "attach"
    /\ call.res = "Ok"
    /\ call.stale = 77
    /\ call.pixels = <<1, 2, 3, 4, 255, 128, 0, 255>>
    /\ call.len = ToBytes(8, 8)
    /\ call.canvas = <<3, 2, 1, 4, 0, 128, 255, 255>>

\* C22: on a configured surface attach_buffer fails with the size-mismatch
\* error whenever the length of the slice differs from 4 * w * h taken as
\* an integer, also where the length equals 4 * w * h modulo 2^32.
C22_SizeMismatchIsExact ==
    (/\ call.op = "attach"
     /\ call.configured
     /\ ToBytes(Len(call.pixels), 12) # ExactSize(call.width, call.height))
        => call.res = "SizeMismatch"

IsPrefix(s, t) == Len(s) <= Len(t) /\ SubSeq(t, 1, Len(s)) = s

\* C23: the records handle_fs_event was called with are, in this order, the
\* records the watcher delivered, each once: at any time the applied
\* records followed by the queued ones are the delivered ones, and when the
\* drain loop of a turn has ended every delivered record has been applied.
C23_AppliedInDeliveryOrder ==
    /\ IsPrefix(applied, delivered)
    /\ applied \o pending_events = delivered
    /\ pc \in {"tick", "render", "exit_check"} => applied = delivered

C23_Witness ==
    /\ pc = "tick"
    /\ Len(applied) = 2
    /\ applied[1] # applied[2]
    /\ applied[1].kind = "Create"
    /\ applied = delivered

\* C24: no two icons whose surfaces are in the surface table are laid out
\* at the same grid cell, that is, at the same surface position.
C24_NoSharedCell ==
    \A p, q \in DOMAIN path_to_surface :
        (/\ p # q
         /\ path_to_surface[p] \in DOMAIN surfaces
         /\ path_to_surface[q] \in DOMAIN surfaces)
            => surfaces[path_to_surface[p]].position
                   # surfaces[path_to_surface[q]].position

\* C26: every surface id of the daemon's two maps is the id of a surface
\* in the surface table of the compositor client.
C26_MappedSurfacesAreLive ==
    wayland =>
        /\ DOMAIN surface_to_path \subseteq DOMAIN surfaces
        /\ Range(path_to_surface) \subseteq DOMAIN surfaces

\* C27: handling a Modify record is atomic for every path P of the record
\* that had an icon: the state the handler leaves, which is the state the
\* tick step, the render pass and the input handling after it see, never
\* has P removed from the icon table and not added again.
C27_ModifyIsAtomic ==
    (last.op \in {"fs_event", "fs_event_err"} /\ last.ev.kind = "Modify") =>
        \A path \in SeqToSet(last.ev.paths) \cap last.pre :
            path \in DOMAIN icons

\* The dimensions of the primary output as the claims state them: the
\* logical size of the first output when known, else the dimensions of its
\* current mode, else nothing.
Reported ==
    IF outputs # <<>> /\ outputs[1].logical_size # None
    THEN outputs[1].logical_size
    ELSE IF outputs # <<>> /\ outputs[1].mode # None
    THEN outputs[1].mode
    ELSE None

\* The daemon is between the geometry poll of a turn and the compositor
\* dispatch of the next one, or before its first turn.
Polled == pc \notin {"dispatch_wayland", "input", "geometry"}

\* C28 as stated: at construction and after every geometry poll the stored
\* screen dimensions are the logical size of the first output when known,
\* else the dimensions of its current mode, else 1920x1080.
C28_DimensionsFollowOutput ==
    Polled =>
        <<screen_width, screen_height>> =
            (IF Reported = None THEN <<1920, 1080>> ELSE Reported[1])

\* C28, amended: the stored screen dimensions are 1920x1080 until the
\* first geometry poll; a poll stores the logical size of the first output
\* when known, else the dimensions of its current mode, and leaves the
\* stored pair as it is when neither is known.
C28_DimensionsFollowOutputOrStay ==
    /\ [](pc \in {"new", "constructed", "failed", "init_render"} =>
            <<screen_width, screen_height>> = <<1920, 1080>>)
    /\ [][(pc = "geometry" /\ pc' # pc) =>
            <<screen_width', screen_height'>> =
                (IF Reported = None THEN <<screen_width, screen_height>>
                 ELSE Reported[1])]_vars

C28_Witness ==
    /\ pc = "calloop"
    /\ last.op = "geometry"
    /\ Reported = None
    /\ <<screen_width, screen_height>> = <<1280, 720>>

\* The geometry poll of this turn finds dimensions that differ from the
\* stored pair.
Differ == Reported # None /\ Reported[1] # <<screen_width, screen_height>>

\* C29: the geometry poll of a turn calls reposition_all exactly when the
\* reported dimensions differ from the stored pair; it has stored the
\* reported pair by then, so every position set is the cell on the new
\* screen; when the dimensions do not differ, the stored pair and every
\* surface position stay as they are.
C29_RepositionIffDimensionsDiffer ==
    [][(pc = "geometry" /\ pc' # pc) =>
        /\ (last'.op = "reposition") <=> (wayland /\ Differ)
        /\ (wayland /\ Differ) =>
              /\ <<screen_width', screen_height'>> = Reported[1]
              /\ \A i \in DOMAIN last'.moves :
                    last'.moves[i].position =
                        request_position(Reported[1][1], Reported[1][2],
                                         Cardinality(DOMAIN icons),
                                         last'.moves[i].index,
                                         cell_width, cell_height)
        /\ ~(wayland /\ Differ) =>
              /\ UNCHANGED <<screen_width, screen_height, surfaces>>
              /\ last'.moves = <<>>]_vars

C29_Witness ==
    /\ last.op = "reposition"
    /\ <<screen_width, screen_height>> = <<1280, 720>>
    /\ \E i \in DOMAIN last.moves :
          /\ last.moves[i].surface_id \in DOMAIN surfaces
          /\ surfaces[last.moves[i].surface_id].position
                 = [x |-> 20, y |-> 684]

\* C30: reposition_all over the k entries of the bimap calls
\* set_surface_position once for every mapped surface, with the grid
\* indices 0..k-1 in the order of the calls, and changes neither the bimap
\* nor the icon table.
C30_RepositionCoversBimap ==
    [][(pc = "geometry" /\ pc' # pc /\ last'.op = "reposition") =>
        LET k == Cardinality(DOMAIN path_to_surface)
            moves == last'.moves
        IN /\ Len(moves) = k
           /\ {moves[i].surface_id : i \in DOMAIN moves}
                  = Range(path_to_surface)
           /\ \A i \in DOMAIN moves : moves[i].index = i - 1
           /\ UNCHANGED <<icons, path_to_surface, surface_to_path>>]_vars

C30_Witness ==
    /\ last.op = "reposition"
    /\ Len(last.moves) = 2
    /\ last.moves[1].surface_id = path_to_surface[PathB]
    /\ last.moves[2].index = 1

\* The icon of path has a configured surface in the surface table that has
\* no buffer.
AwaitsBuffer(path) ==
    /\ path \in DOMAIN icons
    /\ path \in DOMAIN path_to_surface
    /\ path_to_surface[path] \in DOMAIN surfaces
    /\ surfaces[path_to_surface[path]].configured
    /\ surfaces[path_to_surface[path]].buffer = NoBuffer

\* C25: under fair scheduling of the loop, an icon whose surface has been
\* configured gets a buffer attached to that surface, unless the icon or
\* the surface is removed or the daemon ends first, whether or not
\* anything else happens after the configure.
C25_ConfiguredIsEventuallyPresented ==
    \A path \in Paths :
        AwaitsBuffer(path) ~>
            (~AwaitsBuffer(path) \/ pc \in {"done", "run_failed", "failed"})

\* The tick step of run() with the timer flag set.
TickObserved == pc = "tick" /\ should_update_icons /\ pc' # pc

\* C31: when the tick is observed, update() is called on every icon (in a
\* directory that stays as it is meanwhile, the icons whose update returns
\* Gone are those whose entry is not there); the icon table afterwards is
\* the table before without exactly the icons whose update returned Gone,
\* whose bimap entries and surfaces are gone; every other icon, map entry
\* and surface is as before, and the should-update flag is reset.
C31_TickRemovesExactlyGone ==
    [][TickObserved =>
        LET gone == last'.failed
            kept == DOMAIN icons \ gone
        IN /\ last'.op = "update_icons"
           /\ gone \subseteq DOMAIN icons
           /\ Undisturbed =>
                 gone = {path \in DOMAIN icons : path \notin fs}
           /\ DOMAIN icons' = kept
           /\ \A path \in kept : icons'[path] = icons[path]
           /\ DOMAIN path_to_surface' = DOMAIN path_to_surface \ gone
           /\ \A path \in DOMAIN path_to_surface' :
                 path_to_surface'[path] = path_to_surface[path]
           /\ \A path \in gone \cap DOMAIN path_to_surface :
                 /\ path_to_surface[path] \notin DOMAIN surface_to_path'
                 /\ path_to_surface[path] \notin DOMAIN surfaces'
                 /\ path_to_surface[path] \notin Range(surface_ids')
           /\ \A surface_id \in DOMAIN surface_to_path' :
                 /\ surface_id \in DOMAIN surface_to_path
                 /\ surface_to_path'[surface_id] = surface_to_path[surface_id]
           /\ \A surface_id \in DOMAIN surfaces :
                 surface_id \notin {path_to_surface[path] :
                                      path \in gone \cap DOMAIN path_to_surface}
                    => /\ surface_id \in DOMAIN surfaces'
                       /\ surfaces'[surface_id] = surfaces[surface_id]
           /\ DOMAIN surfaces' \subseteq DOMAIN surfaces
           /\ ~should_update_icons']_vars

\* C31 witness: the tick-driven update has removed one icon with its map
\* entries and its surface, and has kept another with its surface.
C31_Witness ==
    /\ last.op = "update_icons"
    /\ last.failed # {}
    /\ last.failed \cap DOMAIN icons = {}
    /\ \E path \in DOMAIN icons :
          /\ path \in last.pre
          /\ path \in DOMAIN path_to_surface
          /\ path_to_surface[path] \in DOMAIN surfaces
    /\ retired # {}

\* C32: after a render pass, every mapped icon for which the pass logged no
\* failure has its surface in the surface table and, when that surface is
\* configured, shows its current visual state in the buffer attached to
\* it, whichever icons of the pass failed to rasterise or to attach.
C32_FailureDoesNotStopPass ==
    last.op = "render" =>
        \A path \in (DOMAIN icons \cap DOMAIN path_to_surface) \ last.failed :
            LET surface_id == path_to_surface[path]
            IN /\ surface_id \in DOMAIN surfaces
               /\ surfaces[surface_id].configured =>
                     surfaces[surface_id].buffer
                         = SomeBuffer(Pixels(icons[path]))

\* C32 witness: in the one pass that ran after the pointer entered an icon,
\* an icon failed and the entered icon got the buffer of its hovered state.
C32_Witness ==
    /\ last.op = "render"
    /\ budget = MaxEnvEvents - 1
    /\ last.failed # {}
    /\ \E path \in (DOMAIN icons \cap DOMAIN path_to_surface) \ last.failed :
          /\ icons[path].hovered
          /\ path_to_surface[path] \in DOMAIN surfaces
          /\ surfaces[path_to_surface[path]].buffer
                 = SomeBuffer(Pixels(icons[path]))

\* The channel callback of run() takes a watcher error from the channel.
TakesWatcherError ==
    /\ pc = "calloop"
    /\ chan # <<>>
    /\ Head(chan).kind = "Error"
    /\ chan' = Tail(chan)

\* C33: handling a filesystem record, whether the handler returns ok or an
\* error, leaves the loop in its drain with the stop flag as it was, and
\* the drain ends only when no record is pending; a watcher error message
\* changes neither the position of the loop, nor the stop flag, nor the
\* pending records.
C33_ErrorsAreContained ==
    [][/\ HandlesNext =>
             /\ pc' = "process_fs"
             /\ should_stop' = should_stop
             /\ applied' = Append(applied, Head(pending_events))
       /\ (pc = "process_fs" /\ pc' # pc) =>
             /\ pending_events = <<>>
             /\ pc' = "tick"
       /\ TakesWatcherError =>
             /\ pc' = pc
             /\ UNCHANGED <<should_stop, pending_events, delivered>>]_vars

\* C33 witness: handle_fs_event has returned an error for a record, and the
\* drain loop stands before a later record of the same turn.
C33_Witness ==
    /\ pc = "process_fs"
    /\ last.op = "fs_event_err"
    /\ pending_events # <<>>
    /\ applied \o pending_events = delivered

\* The daemon and its on_click calls when the loop of handle_wayland_input
\* reaches event i of the queue, with on_click failing for click_fail.
BeforeEvent(i, click_fail) ==
    handle_wayland_input([st |-> Cur, clicks |-> <<>>],
                         SubSeq(input_events, 1, i - 1), click_fail)

\* The icon bound to a surface id in a state of the daemon, if any.
BoundTo(st, surface_id) ==
    IF /\ surface_id \in DOMAIN st.surface_to_path
       /\ st.surface_to_path[surface_id] \in DOMAIN st.icons
    THEN {st.surface_to_path[surface_id]}
    ELSE {}

\* C34: for every PointerEnter and PointerLeave of the queue that
\* handle_wayland_input is about to drain, handling the event sets (Enter)
\* or clears (Leave) the hover flag of the icon bound to its surface id and
\* sets the dirty flag; the hover flag of every other icon, the key set of
\* the icon table and the on_click calls stay as they are.
C34_HoverFollowsEvent ==
    (pc = "input" /\ wayland) =>
        \A i \in DOMAIN input_events :
            LET before == BeforeEvent(i, {})
                event == input_events[i]
                after == HandleInput(before, event, {})
                bound == BoundTo(before.st, event.surface_id)
            IN event.kind \in {"PointerEnter", "PointerLeave"} =>
                  /\ DOMAIN after.st.icons = DOMAIN before.st.icons
                  /\ \A path \in bound :
                        /\ after.st.icons[path].hovered
                               = (event.kind = "PointerEnter")
                        /\ after.st.needs_render
                  /\ \A path \in DOMAIN before.st.icons \ bound :
                        after.st.icons[path] = before.st.icons[path]
                  /\ after.clicks = before.clicks

\* C34 witness: the pointer entered the surface of one of two icons and
\* left it again; both events were handled after the initial render pass
\* had cleared the dirty flag: no icon is hovered and the flag is set.
C34_Witness ==
    /\ pc = "geometry"
    /\ last.op = "input"
    /\ Len(handled) = 2
    /\ handled[1].kind = "PointerEnter"
    /\ handled[2] = PointerLeave(handled[1].surface_id)
    /\ last.turn = <<"wayland", "input">>
    /\ Cardinality(DOMAIN icons) = 2
    /\ BoundTo(Cur, handled[1].surface_id) # {}
    /\ \A path \in DOMAIN icons : ~icons[path].hovered
    /\ needs_render

\* The button numbers on_click may be called with.
ButtonNums == {ButtonNum(button) : button \in Buttons}

\* C35: for every PointerButton event of the queue that
\* handle_wayland_input is about to drain: if it is pressed and its surface
\* id is bound to an icon, on_click is called once, on that icon, and the
\* dirty flag is true afterwards whether on_click returns ok or an error;
\* if it is not pressed, on_click is not called.
C35_PressClicksAndSetsDirty ==
    (pc = "input" /\ wayland) =>
        \A click_fail \in SUBSET ButtonNums :
            \A i \in DOMAIN input_events :
                LET before == BeforeEvent(i, click_fail)
                    event == input_events[i]
                    after == HandleInput(before, event, click_fail)
                    bound == BoundTo(before.st, event.surface_id)
                IN event.kind = "PointerButton" =>
                      IF event.pressed /\ bound # {}
                      THEN /\ Len(after.clicks) = Len(before.clicks) + 1
                           /\ SubSeq(after.clicks, 1, Len(before.clicks))
                                  = before.clicks
                           /\ after.clicks[Len(after.clicks)].path \in bound
                           /\ after.st.needs_render
                      ELSE after.clicks = before.clicks

\* C36: the input events handle_wayland_input has handled, followed by
\* those still in the queue, are the events pointer_frame pushed, in the
\* order it pushed them, each once; and once handle_wayland_input has run in
\* a turn the queue is empty and every event pushed has been handled.
C36_InputHandledOnceInOrder ==
    /\ handled \o input_events = queued
    /\ pc \notin {"dispatch_wayland", "input"} =>
          /\ input_events = <<>>
          /\ handled = queued

\* C36 witness: an enter and a press pushed in one dispatch were handled in
\* that order, and the press reached on_click.
C36_Witness ==
    /\ pc = "geometry"
    /\ last.op = "input"
    /\ last.turn = <<"wayland", "input">>
    /\ Len(queued) = 2
    /\ queued[1].kind = "PointerEnter"
    /\ queued[2] = PointerButton(queued[1].surface_id, BTN_LEFT, TRUE)
    /\ handled = queued
    /\ input_events = <<>>
    /\ Len(last.clicks) = 1

\* C37: whenever pointer_frame appends an input event to the queue, the
\* surface id of the event is in the surface table at that moment; this
\* holds for Enter and Leave and for Motion, Press and Release, which take
\* the id from the remembered pointer surface.
C37_QueuedSurfaceIsLive ==
    [][Len(input_events') > Len(input_events) =>
          input_events'[Len(input_events')].surface_id \in DOMAIN surfaces]_vars

\* C38: for every event of the queue that handle_wayland_input is about to
\* drain, handling the event changes no icon other than the one bound to
\* its surface id at that moment, adds and removes no icon, and calls
\* on_click on no other icon; an event whose surface id belongs to a
\* surface that remove_icon destroyed earlier (for a Remove record, a
\* Modify record or a failed update) changes no icon, calls on_click on
\* none and leaves the dirty flag as it is.
C38_StaleEventsAffectNoIcon ==
    (pc = "input" /\ wayland) =>
        \A i \in DOMAIN input_events :
            LET before == BeforeEvent(i, {})
                event == input_events[i]
                after == HandleInput(before, event, {})
                bound == BoundTo(before.st, event.surface_id)
            IN /\ DOMAIN after.st.icons = DOMAIN before.st.icons
               /\ \A path \in DOMAIN before.st.icons \ bound :
                     after.st.icons[path] = before.st.icons[path]
               /\ Len(after.clicks) >= Len(before.clicks)
               /\ \A k \in DOMAIN after.clicks :
                     IF k <= Len(before.clicks)
                     THEN after.clicks[k] = before.clicks[k]
                     ELSE after.clicks[k].path \in bound
               /\ event.surface_id \in retired =>
                     /\ after.st.icons = before.st.icons
                     /\ after.clicks = before.clicks
                     /\ after.st.needs_render = before.st.needs_render

\* C38 witness: the pointer entered the surface of an icon, a Modify record
\* replaced the icon and its surface, and a press that still carried the id
\* of the destroyed surface was handled: on_click was not called, the new
\* icon is not hovered.
C38_Witness ==
    /\ pc = "geometry"
    /\ last.op = "input"
    /\ handled # <<>>
    /\ handled[Len(handled)].kind = "PointerButton"
    /\ handled[Len(handled)].pressed
    /\ handled[Len(handled)].surface_id \in retired
    /\ last.clicks = <<>>
    /\ DOMAIN icons = {PathA, PathB}
    /\ PathA \in DOMAIN path_to_surface
    /\ path_to_surface[PathA] > handled[Len(handled)].surface_id
    /\ applied # <<>>
    /\ applied[Len(applied)].kind = "Modify"
    /\ ~icons[PathA].hovered

\* The icons whose hover flag is set.
Hovered == {path \in DOMAIN icons : icons[path].hovered}

\* C39: as long as the compositor has reported a Leave for the surface it
\* entered last before every Enter, at most one icon has its hover flag set.
C39_AtMostOneHovered ==
    orderly => Cardinality(Hovered) <= 1

\* C40: every path of path_to_surface, and every path surface_to_path
\* leads to, has an entry in the icon table, so that a render pass, which
\* walks the icon table, meets no mapped surface without an icon.
C40_MappedPathHasIcon ==
    /\ DOMAIN path_to_surface \subseteq DOMAIN icons
    /\ Range(surface_to_path) \subseteq DOMAIN icons

\* C40 witness: a render pass ran over two mapped icons after two records
\* had been handled and an icon had been removed with its map entries.
C40_Witness ==
    /\ last.op = "render"
    /\ retired # {}
    /\ Cardinality(DOMAIN path_to_surface) = 2
    /\ DOMAIN path_to_surface = DOMAIN icons
    /\ Len(applied) = 2

====
